---- MODULE Spec2Model ----
(***************************************************************************)
(* Model of the request-orchestration layer of the TTS proxy:              *)
(*   ConcurrencyManager  (src/lib/utils.js 211-327)                        *)
(*   CircuitBreaker      (src/lib/utils.js 336-448)                        *)
(*   robustStreamResponse(src/lib/utils.js 783-902)                        *)
(*   callElevenLabsAPI   (src/lib/utils.js 991-1178)                       *)
(*   getDynamicProxyConfig, getDynamicProxyAgent                           *)
(*                       (src/lib/utils.js 478-651)                        *)
(*   robustTtsHandler    (src/api/health.js 187-377)                       *)
(*                                                                         *)
(* Node.js runs one macrotask at a time: a handler runs without            *)
(* interruption from one suspension point (an await on I/O or on a timer)  *)
(* to the next, so every action below is one such run, continuations of    *)
(* settled promises included.                                              *)
(*                                                                         *)
(* Specifications:                                                         *)
(*   BreakerSpec  the CircuitBreaker class driven by arbitrary callers of  *)
(*                execute(operation) and reset(), with a clock;            *)
(*   Spec         robustTtsHandler end to end, several requests in flight, *)
(*                region rotation off;                                     *)
(*   FairSpec     Spec with weak fairness on the steps of every request in *)
(*                flight;                                                  *)
(*   RetrySpec    robustTtsHandler, one request at a time, region rotation *)
(*                on or off (the retry loop of callElevenLabsAPI and the   *)
(*                sessions);                                               *)
(*   RelaySpec    one invocation of robustStreamResponse under every       *)
(*                ordering of the events of the body, of the response and  *)
(*                of the timer;                                            *)
(*   RelayFairSpec RelaySpec with weak fairness on its steps;              *)
(*   RouteSpec    the routes that the attempts of attemptElevenLabsAPICall *)
(*                resolve, for every environment and region pool. The      *)
(*                region manager (region-manager.js) is modelled from its  *)
(*                specification.                                           *)
(***************************************************************************)
EXTENDS Integers, FiniteSets, Sequences, TLC

VARIABLES
    now,        \* Date.now(), in milliseconds since the process started
    env,        \* process.env: the switches read by the code
    cb,         \* elevenLabsCircuitBreaker (CircuitBreaker instance)
    cm,         \* concurrencyManager (ConcurrencyManager instance)
    req,        \* one record per handler invocation slot of robustTtsHandler
    last,       \* the outcome of the handler invocation that returned last
    ops,        \* BreakerSpec: one record per caller of execute(operation)
    calls,      \* BreakerSpec: how many times an operation was invoked
    sessions,   \* activeSessions: session id -> profile, startTime, requestCount
    stream,     \* RelaySpec: one invocation of robustStreamResponse, with the
                \* upstream body and the response object it works on
    route       \* RouteSpec: the region pool, the cached static agent and
                \* the routes resolved by the last attempt

vars == <<now, env, cb, cm, req, last, ops, calls, sessions, stream, route>>

\* no handler invocation has returned yet
NoOutcome == [ sent |-> 0, error |-> "none", attempts |-> 0 ]

----------------------------------------------------------------------------
(* Bounds of the model *)

\* the clock stops advancing at MaxTime
MaxTime == 2
\* Spec: handler invocations that can be in flight together
NumHandlers == 2
\* Spec: requests over the whole run
MaxRequests == 3
\* RetrySpec: logical calls of callElevenLabsAPI over the whole run
MaxLogicalCalls == 2
\* the profiles of BROWSER_PROFILES that the model draws from
NumProfiles == 2
\* BreakerSpec: callers of execute that can be in flight together
NumCallers == 2
\* BreakerSpec: execute calls over the whole run
MaxCalls == 6

----------------------------------------------------------------------------
(* Configuration of the program *)

\* this.lastFailureTime = null
NULL == -1

\* parseInt(process.env.CIRCUIT_BREAKER_THRESHOLD) || 3, here configured to 2
failureThreshold == 2

\* parseInt(process.env.CIRCUIT_BREAKER_TIMEOUT) || 30000, here configured
\* to 1 ms so that the clock reaches, equals and passes it
resetTimeout == 1

\* parseInt(process.env.MAX_CONCURRENT_PER_VOICE) || 3, here configured to 1
MaxConcurrentPerVoice == 1

\* BEHAVIOR_CONFIG.sessionDuration: 300000 ms, here 2 ms so that the clock
\* reaches it
sessionDuration == 2

\* HALF_OPEN: if (this.successCount >= 2)
recoveryThreshold == 2

\* BEHAVIOR_CONFIG.minDelay and maxDelay, in milliseconds
minDelay == 800
maxDelay == 2500

\* BEHAVIOR_CONFIG.retryDelayMultiplier and maxRetryDelay
retryDelayMultiplier == 2
maxRetryDelay == 10000

\* JavaScript's ToNumber on a timestamp field: null converts to 0
ToNumber(x) == IF x = NULL THEN 0 ELSE x

----------------------------------------------------------------------------
(* CircuitBreaker *)

\* constructor. this.lastRequestTime and this.stats.lastStateChange are left
\* out: they are timestamps that the code writes and only getStats() reports.
CircuitBreaker ==
    [ state           |-> "CLOSED",
      failures        |-> 0,
      lastFailureTime |-> NULL,
      successCount    |-> 0,
      requestCount    |-> 0,
      stats           |-> [ totalRequests    |-> 0,
                            totalFailures    |-> 0,
                            totalSuccesses   |-> 0,
                            circuitOpenCount |-> 0 ] ]

\* _changeState(newState)
changeState(b, newState, t) ==
    [b EXCEPT !.state = newState]

\* execute() that books a short-circuited call as a failure of the operation
execute_enter_countsOpen(b, t) ==
    LET b1 == [b EXCEPT !.requestCount = @ + 1,
                        !.stats.totalRequests = @ + 1]
    IN  IF b1.state = "OPEN"
        THEN IF t - ToNumber(b1.lastFailureTime) > resetTimeout
             THEN [ cb     |-> [changeState(b1, "HALF_OPEN", t)
                                    EXCEPT !.successCount = 0],
                    invoke |-> TRUE ]
             ELSE [ cb     |-> [b1 EXCEPT !.failures = @ + 1,
                                          !.lastFailureTime = t],
                    invoke |-> FALSE ]
        ELSE [ cb |-> b1, invoke |-> TRUE ]

\* execute() that starts the count of successes again at every call it lets
\* through in HALF_OPEN
execute_enter_resetsAgain(b, t) ==
    LET b1 == [b EXCEPT !.requestCount = @ + 1,
                        !.stats.totalRequests = @ + 1]
    IN  IF b1.state = "OPEN"
        THEN IF t - ToNumber(b1.lastFailureTime) > resetTimeout
             THEN [ cb     |-> [changeState(b1, "HALF_OPEN", t)
                                    EXCEPT !.successCount = 0],
                    invoke |-> TRUE ]
             ELSE [ cb |-> b1, invoke |-> FALSE ]
        ELSE IF b1.state = "HALF_OPEN"
             THEN [ cb |-> [b1 EXCEPT !.successCount = 0], invoke |-> TRUE ]
             ELSE [ cb |-> b1, invoke |-> TRUE ]

\* execute() that lets one probe in per HALF_OPEN period: the call that makes
\* the transition, every call that finds HALF_OPEN being refused
execute_enter_oneProbe(b, t) ==
    LET b1 == [b EXCEPT !.requestCount = @ + 1,
                        !.stats.totalRequests = @ + 1]
    IN  IF b1.state = "OPEN"
        THEN IF t - ToNumber(b1.lastFailureTime) > resetTimeout
             THEN [ cb     |-> [changeState(b1, "HALF_OPEN", t)
                                    EXCEPT !.successCount = 0],
                    invoke |-> TRUE ]
             ELSE [ cb |-> b1, invoke |-> FALSE ]
        ELSE [ cb |-> b1, invoke |-> b1.state # "HALF_OPEN" ]

\* execute(), from its first line to the call of operation(): the counters,
\* then the check of the circuit state. invoke is FALSE when the call throws
\* "Circuit breaker is OPEN" instead of calling operation().
execute_enter(b, t) ==
    LET b1 == [b EXCEPT !.requestCount = @ + 1,
                        !.stats.totalRequests = @ + 1]
    IN  IF b1.state = "OPEN"
        THEN IF t - ToNumber(b1.lastFailureTime) > resetTimeout
             THEN [ cb     |-> [changeState(b1, "HALF_OPEN", t)
                                    EXCEPT !.successCount = 0],
                    invoke |-> TRUE ]
             ELSE [ cb |-> b1, invoke |-> FALSE ]
        ELSE [ cb |-> b1, invoke |-> TRUE ]

\* execute() that forgets the failures at the first success in HALF_OPEN,
\* while the circuit stays HALF_OPEN
execute_then_clearsEarly(b, t) ==
    LET b1 == [b EXCEPT !.stats.totalSuccesses = @ + 1]
    IN  IF b1.state = "HALF_OPEN"
        THEN LET b2 == [b1 EXCEPT !.successCount = @ + 1, !.failures = 0]
             IN  IF b2.successCount >= recoveryThreshold
                 THEN changeState(b2, "CLOSED", t)
                 ELSE b2
        ELSE b1

\* execute() that closes the circuit on the first success in HALF_OPEN
execute_then_oneSuccess(b, t) ==
    LET b1 == [b EXCEPT !.stats.totalSuccesses = @ + 1]
    IN  IF b1.state = "HALF_OPEN"
        THEN LET b2 == [b1 EXCEPT !.successCount = @ + 1]
             IN  IF b2.successCount >= 1
                 THEN [changeState(b2, "CLOSED", t) EXCEPT !.failures = 0]
                 ELSE b2
        ELSE b1

\* execute(), after `await operation()` returned
execute_then(b, t) ==
    LET b1 == [b EXCEPT !.stats.totalSuccesses = @ + 1]
    IN  IF b1.state = "HALF_OPEN"
        THEN LET b2 == [b1 EXCEPT !.successCount = @ + 1]
             IN  IF b2.successCount >= recoveryThreshold
                 THEN [changeState(b2, "CLOSED", t) EXCEPT !.failures = 0]
                 ELSE b2
        ELSE b1

\* execute() that counts an opening at every failure at or past the
\* threshold, also when the circuit is OPEN already
execute_catch_countsEvery(b, t) ==
    LET b1 == [b EXCEPT !.failures = @ + 1,
                        !.stats.totalFailures = @ + 1,
                        !.lastFailureTime = t]
    IN  IF b1.failures >= failureThreshold
        THEN [changeState(b1, "OPEN", t)
                  EXCEPT !.stats.circuitOpenCount = @ + 1]
        ELSE b1

\* execute() that opens the circuit from CLOSED only
execute_catch_closedOnly(b, t) ==
    LET b1 == [b EXCEPT !.failures = @ + 1,
                        !.stats.totalFailures = @ + 1,
                        !.lastFailureTime = t]
    IN  IF b1.failures >= failureThreshold /\ b1.state = "CLOSED"
        THEN [changeState(b1, "OPEN", t) EXCEPT !.stats.circuitOpenCount = @ + 1]
        ELSE b1

\* execute(), the catch block after `await operation()` threw
execute_catch(b, t) ==
    LET b1 == [b EXCEPT !.failures = @ + 1,
                        !.stats.totalFailures = @ + 1,
                        !.lastFailureTime = t]
    IN  IF b1.failures >= failureThreshold /\ b1.state # "OPEN"
        THEN [changeState(b1, "OPEN", t) EXCEPT !.stats.circuitOpenCount = @ + 1]
        ELSE b1

\* reset() that clears the counters and forgets to change the state
reset_keepsState(b, t) ==
    [b EXCEPT !.failures = 0, !.successCount = 0, !.lastFailureTime = NULL]

\* reset()
reset(b, t) ==
    [changeState(b, "CLOSED", t) EXCEPT !.failures = 0,
                                        !.successCount = 0,
                                        !.lastFailureTime = NULL]

\* isHealthy()
isHealthy(b) == b.state = "CLOSED" \/ b.state = "HALF_OPEN"

----------------------------------------------------------------------------
(* Routes: the proxy configuration and the region of an attempt *)

\* A credential string is the sequence of the pieces it is concatenated
\* from. The base configuration of the environment:
BaseUsername == <<"user">>
BasePassword == <<"pw">>

\* region records {countryCode, regionCode, cityCode}; BadRegion fails the
\* validation (an empty field)
RegionA == [countryCode |-> "us", regionCode |-> "ca", cityCode |-> "la"]
RegionB == [countryCode |-> "de", regionCode |-> "by", cityCode |-> "muc"]
RegionC == [countryCode |-> "jp", regionCode |-> "13", cityCode |-> "tyo"]
BadRegion == [countryCode |-> "us", regionCode |-> "", cityCode |-> "la"]

\* the region pool as the region manager holds it: missing, empty, invalid,
\* or valid with one to three regions
MissingPool == [present |-> FALSE, regions |-> <<>>]

RegionPools ==
    {MissingPool} \cup
    { [present |-> TRUE, regions |-> rs] :
        rs \in { <<>>, <<BadRegion>>, <<RegionA, BadRegion>>, <<RegionA>>,
                 <<RegionA, RegionB>>, <<RegionA, RegionB, RegionC>> } }

\* validateRegionsData(): the pool is present and non-empty and each record
\* has three non-empty fields
validateRegionsData(pool) ==
    /\ pool.present
    /\ Len(pool.regions) > 0
    /\ \A i \in 1..Len(pool.regions) :
          /\ pool.regions[i].countryCode # ""
          /\ pool.regions[i].regionCode # ""
          /\ pool.regions[i].cityCode # ""

\* selectRandomRegion(): one region of the pool, uniformly at random;
\* random is Math.random() in thousandths
selectRandomRegion(pool, random) ==
    pool.regions[((random * Len(pool.regions)) \div 1000) + 1]

\* buildDynamicProxyAuth(username, password, region): the credential is
\* password + "-" + countryCode + "_" + regionCode + "_city_" + cityCode
buildDynamicProxyAuth(username, password, region) ==
    [ username |-> username,
      password |-> password \o <<"-", region.countryCode, "_",
                                 region.regionCode, "_city_",
                                 region.cityCode>> ]

\* no region: SELECTED_REGION of the static route (null) and of the base
\* configuration (the key is absent)
NoRegion == [countryCode |-> "", regionCode |-> "", cityCode |-> ""]

\* getProxyConfig(): the base configuration, or the error thrown when a
\* variable of the proxy is not set
getProxyConfig(e) ==
    IF e.proxyConfigured
    THEN [ threw |-> FALSE, PROXY_USERNAME |-> BaseUsername,
           PROXY_PASSWORD |-> BasePassword, SELECTED_REGION |-> NoRegion,
           draws |-> 0 ]
    ELSE [ threw |-> TRUE, PROXY_USERNAME |-> <<>>, PROXY_PASSWORD |-> <<>>,
           SELECTED_REGION |-> NoRegion, draws |-> 0 ]

\* getDynamicProxyConfig(): the route of one resolution. draws counts the
\* calls of selectRandomRegion it made.
getDynamicProxyConfig(e, pool, random) ==
    LET baseConfig == getProxyConfig(e)
    IN  IF baseConfig.threw THEN baseConfig
        ELSE IF e.enableDynamicRegions # TRUE
        THEN [baseConfig EXCEPT !.PROXY_PASSWORD = @ \o <<"-global">>]
        ELSE IF ~validateRegionsData(pool) THEN baseConfig
        ELSE LET selectedRegion == selectRandomRegion(pool, random)
                 dynamicAuth == buildDynamicProxyAuth(
                                    baseConfig.PROXY_USERNAME,
                                    baseConfig.PROXY_PASSWORD, selectedRegion)
             IN  [ threw |-> FALSE,
                   PROXY_USERNAME |-> dynamicAuth.username,
                   PROXY_PASSWORD |-> dynamicAuth.password,
                   SELECTED_REGION |-> selectedRegion,
                   draws |-> 1 ]

\* createProxyAgent(): the static agent, made from the base configuration
createProxyAgent(e) == getProxyConfig(e)

\* createDynamicProxyAgent(): an agent made from a resolution of its own
createDynamicProxyAgent(e, pool, random) ==
    getDynamicProxyConfig(e, pool, random)

\* no agent: httpsAgent = null
NoAgent ==
    [ threw |-> FALSE, PROXY_USERNAME |-> <<>>, PROXY_PASSWORD |-> <<>>,
      SELECTED_REGION |-> NoRegion, draws |-> 0 ]

\* getDynamicProxyAgent(): with rotation a new agent for every call, without
\* it the agent cached in httpsAgent, created on first use. Returns the
\* agent and the cache.
getDynamicProxyAgent(e, pool, httpsAgent, random) ==
    IF e.enableDynamicRegions = TRUE
    THEN [ agent |-> createDynamicProxyAgent(e, pool, random),
           httpsAgent |-> httpsAgent ]
    ELSE IF httpsAgent # NoAgent
    THEN [ agent |-> httpsAgent, httpsAgent |-> httpsAgent ]
    ELSE LET a == createProxyAgent(e)
         IN  [ agent |-> a,
               httpsAgent |-> IF a.threw THEN NoAgent ELSE a ]

\* no attempt was made yet. reported is the route that
\* attemptElevenLabsAPICall resolves for its log, used the one of the agent
\* it hands to fetch, draws the regions drawn by the attempt.
NoRoute ==
    [ pool |-> MissingPool, httpsAgent |-> NoAgent, attempt |-> 0,
      reported |-> NoAgent, used |-> NoAgent, draws |-> 0 ]

\* attemptElevenLabsAPICall up to the call of fetch: the route resolved for
\* the log (an error of it is swallowed), then the agent
resolveRoutes(e, r, random1, random2) ==
    LET reported == getDynamicProxyConfig(e, r.pool, random1)
        g == getDynamicProxyAgent(e, r.pool, r.httpsAgent, random2)
    IN  [r EXCEPT !.attempt = @ + 1,
                  !.reported = reported,
                  !.used = g.agent,
                  !.httpsAgent = g.httpsAgent,
                  !.draws = reported.draws +
                            (IF e.enableDynamicRegions = TRUE
                             THEN g.agent.draws ELSE 0)]

----------------------------------------------------------------------------
(* robustStreamResponse: the stream state and its event handlers *)

\* The state of one invocation. pc is the promise the caller awaits:
\* "notCalled", "pending", "resolved" (with true), "rejected", or
\* "returnedFalse" (the setup failed). started, finished, errored, aborted
\* and startTime are streamState; streamTimeout is the timer handle: "null",
\* "armed", "cleared" or "fired". body is elevenLabsResponse.body:
\* "flowing", "ended", "errored" or "destroyed". The rest is the response
\* object res: headersSent, headersSet (the relay set CORS and content
\* headers), resEnded (the response was ended), resDestroyed, resClosed
\* ('close' was emitted), resErrored ('error' was emitted), errorSent (error
\* responses written to it); listeners and piped say whether the relay
\* attached its listeners and the pipe, answered whether the caller has
\* acted on the outcome, error is the message of the rejection.
NoStream ==
    [ pc |-> "notCalled",
      started |-> FALSE, finished |-> FALSE, errored |-> FALSE,
      aborted |-> FALSE, startTime |-> NULL,
      streamTimeout |-> "null",
      body |-> "flowing",
      headersSent |-> FALSE, headersSet |-> FALSE, resEnded |-> FALSE,
      resDestroyed |-> FALSE, resClosed |-> FALSE, resErrored |-> FALSE,
      errorSent |-> 0,
      listeners |-> FALSE, piped |-> FALSE, answered |-> FALSE,
      error |-> "none" ]

\* if (streamTimeout) clearTimeout(streamTimeout)
clearTimeout(s) ==
    IF s.streamTimeout = "armed" THEN [s EXCEPT !.streamTimeout = "cleared"]
                                 ELSE s

\* resolve(true) and reject(error) settle the promise once; later calls
\* have no effect
resolve(s) == IF s.pc = "pending" THEN [s EXCEPT !.pc = "resolved"] ELSE s

reject(s, e) ==
    IF s.pc = "pending" THEN [s EXCEPT !.pc = "rejected", !.error = e] ELSE s

\* elevenLabsResponse.body.destroy(): a body that ended or errored is
\* destroyed already
bodyDestroy(s) ==
    IF s.body = "flowing" THEN [s EXCEPT !.body = "destroyed"] ELSE s

\* res.destroy()
resDestroy(s) == [s EXCEPT !.resDestroyed = TRUE]

\* safeSendError without its test of res.headersSent
safeSendError_unchecked(s) ==
    [s EXCEPT !.headersSent = TRUE, !.resEnded = TRUE, !.errorSent = @ + 1]

\* safeSendError(res, status, errorData): writes only while no header was
\* sent
safeSendError(s) ==
    IF ~s.headersSent
    THEN [s EXCEPT !.headersSent = TRUE, !.resEnded = TRUE,
                   !.errorSent = @ + 1]
    ELSE s

\* body 'end' handler that takes the end of the body for a success whatever
\* happened before
bodyOnEnd_unguarded(s) ==
    resolve([clearTimeout(s) EXCEPT !.finished = TRUE])

\* the callback of the 30 s timer
streamTimeoutFires(s) ==
    LET t == [s EXCEPT !.streamTimeout = "fired"]
    IN  IF ~t.finished /\ ~t.errored
        THEN reject(bodyDestroy([t EXCEPT !.aborted = TRUE]),
                    "Stream timeout")
        ELSE t

\* body 'data' handler
bodyOnData(s) == IF ~s.started THEN [s EXCEPT !.started = TRUE] ELSE s

\* body 'end' handler
bodyOnEnd(s) ==
    LET t == clearTimeout(s)
    IN  IF ~t.errored /\ ~t.aborted
        THEN resolve([t EXCEPT !.finished = TRUE])
        ELSE t

\* body 'error' handler
bodyOnError(s) ==
    LET t == [clearTimeout(s) EXCEPT !.errored = TRUE]
    IN  reject(IF t.started /\ ~t.resDestroyed THEN resDestroy(t) ELSE t,
               "source stream error")

\* res 'error' handler
resOnError(s) ==
    reject(bodyDestroy([clearTimeout(s) EXCEPT !.errored = TRUE]),
           "response stream error")

\* res 'close' handler that leaves the timer armed
resOnClose_keepsTimer(s) == IF ~s.finished THEN bodyDestroy(s) ELSE s

\* res 'close' handler
resOnClose(s) ==
    LET t == clearTimeout(s)
    IN  IF ~t.finished THEN bodyDestroy(t) ELSE t

\* what body.pipe(res) does with a chunk and with the end of the body: the
\* chunk is written to res, which sends the headers; the end ends res
pipeOnData(s) ==
    IF s.piped /\ ~s.resDestroyed /\ ~s.resEnded
    THEN [s EXCEPT !.headersSent = TRUE] ELSE s

pipeOnEnd(s) ==
    IF s.piped /\ ~s.resDestroyed /\ ~s.resEnded
    THEN [s EXCEPT !.headersSent = TRUE, !.resEnded = TRUE] ELSE s

\* robustStreamResponse without its test of res.headersSent
robustStreamResponse_noPrecheck(s, t, pipeThrows) ==
    LET p == [s EXCEPT !.pc = "pending", !.startTime = t,
                       !.headersSet = TRUE, !.streamTimeout = "armed",
                       !.listeners = TRUE]
    IN  IF pipeThrows
        THEN reject([clearTimeout(p) EXCEPT !.errored = TRUE], "pipe error")
        ELSE [p EXCEPT !.piped = TRUE]

\* robustStreamResponse(elevenLabsResponse, res) called at time t, up to
\* its return: false when res.headersSent, else the promise, with the timer
\* armed, the listeners attached and the pipe started. pipeThrows: the call
\* of body.pipe(res) throws.
robustStreamResponse(s, t, pipeThrows) ==
    IF s.headersSent
    THEN [s EXCEPT !.pc = "returnedFalse", !.startTime = t]
    ELSE LET p == [s EXCEPT !.pc = "pending", !.startTime = t,
                            !.headersSet = TRUE, !.streamTimeout = "armed",
                            !.listeners = TRUE]
         IN  IF pipeThrows
             THEN reject([clearTimeout(p) EXCEPT !.errored = TRUE],
                         "pipe error")
             ELSE [p EXCEPT !.piped = TRUE]

\* robustTtsHandler after `await robustStreamResponse(...)`: its
\* continuation runs as soon as the promise is settled, before any other
\* event. After false, and in its catch after a rejection, it answers
\* through safeSendError; after true it only logs.
callerContinues(s) ==
    IF s.pc \in {"resolved", "rejected", "returnedFalse"} /\ ~s.answered
    THEN IF s.pc = "resolved"
         THEN [s EXCEPT !.answered = TRUE]
         ELSE safeSendError([s EXCEPT !.answered = TRUE])
    ELSE s

----------------------------------------------------------------------------
(* BreakerSpec: the CircuitBreaker under arbitrary callers *)

Callers == 1..NumCallers

\* a caller of execute: idle, or awaiting its operation. entered is the
\* circuit state in which the operation was invoked, result the outcome of
\* the caller's last execute call.
IdleCaller == [pc |-> "idle", entered |-> "none", result |-> "none"]

\* the clock advances
Tick ==
    /\ now < MaxTime
    /\ now' = now + 1
    /\ UNCHANGED <<env, stream, route, cb, cm, req, last, ops, calls,
                   sessions>>

\* caller c calls execute(operation)
BreakerCall(c) ==
    /\ ops[c].pc = "idle"
    /\ cb.requestCount < MaxCalls
    /\ LET e == execute_enter(cb, now)
       IN  /\ cb' = e.cb
           /\ IF e.invoke
              THEN /\ ops' = [ops EXCEPT ![c] = [pc      |-> "running",
                                                 entered |-> e.cb.state,
                                                 result  |-> "none"]]
                   /\ calls' = calls + 1
              ELSE /\ ops' = [ops EXCEPT ![c] = [pc      |-> "idle",
                                                 entered |-> "none",
                                                 result  |-> "BreakerOpen"]]
                   /\ calls' = calls
    /\ UNCHANGED <<now, env, stream, route, cm, req, last, sessions>>

\* the operation of caller c returns
BreakerOpSucceeds(c) ==
    /\ ops[c].pc = "running"
    /\ cb' = execute_then(cb, now)
    /\ ops' = [ops EXCEPT ![c] = [pc |-> "idle", entered |-> @.entered,
                                  result |-> "returned"]]
    /\ UNCHANGED <<now, env, stream, route, cm, req, last, calls, sessions>>

\* the operation of caller c throws
BreakerOpFails(c) ==
    /\ ops[c].pc = "running"
    /\ cb' = execute_catch(cb, now)
    /\ ops' = [ops EXCEPT ![c] = [pc |-> "idle", entered |-> @.entered,
                                  result |-> "threw"]]
    /\ UNCHANGED <<now, env, stream, route, cm, req, last, calls, sessions>>

\* an administrator calls reset()
BreakerReset ==
    /\ cb' = reset(cb, now)
    /\ cb' # cb
    /\ UNCHANGED <<now, env, stream, route, cm, req, last, ops, calls,
                   sessions>>

BreakerInit ==
    /\ now = 0
    /\ env = [concurrencyEnabled |-> FALSE, enableDynamicRegions |-> FALSE]
    /\ cb = CircuitBreaker
    /\ cm = <<>>
    /\ req = <<>>
    /\ last = NoOutcome
    /\ ops = [c \in Callers |-> IdleCaller]
    /\ calls = 0
    /\ sessions = <<>>
    /\ stream = NoStream
    /\ route = NoRoute

BreakerNext ==
    \/ Tick
    \/ \E c \in Callers : BreakerCall(c)
    \/ \E c \in Callers : BreakerOpSucceeds(c)
    \/ \E c \in Callers : BreakerOpFails(c)
    \/ BreakerReset

BreakerSpec == BreakerInit /\ [][BreakerNext]_vars

----------------------------------------------------------------------------
(* ConcurrencyManager *)

\* the resource keys (voice ids) of the requests
Keys == {"voiceA", "voiceB"}

\* `let voiceId = null`
NoVoice == "null"

\* new Map()
EmptyMap == [k \in {} |-> {}]

\* Map.prototype.set(k, v)
MapSet(f, k, v) == [x \in DOMAIN f \cup {k} |-> IF x = k THEN v ELSE f[x]]

\* Map.prototype.delete(k)
MapDelete(f, k) == [x \in DOMAIN f \ {k} |-> f[x]]

\* constructor
ConcurrencyManager(enabled) ==
    [ activeRequests        |-> EmptyMap,
      maxConcurrentPerVoice |-> MaxConcurrentPerVoice,
      requestCounter        |-> 0,
      concurrencyEnabled    |-> enabled,
      stats                 |-> [ totalRequests    |-> 0,
                                  activeRequests   |-> 0,
                                  rejectedRequests |-> 0 ] ]

\* generateRequestId(): the id is told apart by ++this.requestCounter
generateRequestId(m) ==
    [ cm |-> [m EXCEPT !.requestCounter = @ + 1],
      id |-> m.requestCounter + 1 ]

\* this.activeRequests.get(voiceId)?.size || 0
activeCount(m, voiceId) ==
    IF voiceId \in DOMAIN m.activeRequests
    THEN Cardinality(m.activeRequests[voiceId])
    ELSE 0

\* canProcessRequest() that lets one request too many in
canProcessRequest_offByOne(m, voiceId) ==
    IF ~m.concurrencyEnabled
    THEN [ cm |-> m, ok |-> TRUE ]
    ELSE IF activeCount(m, voiceId) <= m.maxConcurrentPerVoice
         THEN [ cm |-> m, ok |-> TRUE ]
         ELSE [ cm |-> [m EXCEPT !.stats.rejectedRequests = @ + 1], ok |-> FALSE ]

\* canProcessRequest(voiceId)
canProcessRequest(m, voiceId) ==
    IF ~m.concurrencyEnabled
    THEN [ cm |-> m, ok |-> TRUE ]
    ELSE IF activeCount(m, voiceId) < m.maxConcurrentPerVoice
         THEN [ cm |-> m, ok |-> TRUE ]
         ELSE [ cm |-> [m EXCEPT !.stats.rejectedRequests = @ + 1], ok |-> FALSE ]

\* startRequest(voiceId, requestId)
startRequest(m, voiceId, requestId) ==
    LET a1 == IF voiceId \in DOMAIN m.activeRequests
              THEN m.activeRequests
              ELSE MapSet(m.activeRequests, voiceId, {})
        a2 == [a1 EXCEPT ![voiceId] = @ \cup {requestId}]
    IN  [m EXCEPT !.activeRequests = a2,
                  !.stats.totalRequests = @ + 1,
                  !.stats.activeRequests = @ + 1]

\* finishRequest() that keeps the entry of a key whose set became empty
finishRequest_keepsKey(m, voiceId, requestId) ==
    IF voiceId \in DOMAIN m.activeRequests
    THEN [m EXCEPT !.activeRequests[voiceId] = @ \ {requestId},
                   !.stats.activeRequests = @ - 1]
    ELSE m

\* finishRequest(voiceId, requestId)
finishRequest(m, voiceId, requestId) ==
    IF voiceId \in DOMAIN m.activeRequests
    THEN LET requests == m.activeRequests[voiceId] \ {requestId}
             a1 == IF requests = {}
                   THEN MapDelete(m.activeRequests, voiceId)
                   ELSE [m.activeRequests EXCEPT ![voiceId] = requests]
         IN  [m EXCEPT !.activeRequests = a1,
                       !.stats.activeRequests = @ - 1]
    ELSE m

----------------------------------------------------------------------------
(* callElevenLabsAPI: classes of the errors of one attempt *)

\* what fetch rejects with: the network-class messages, and one message
\* that matches none of the patterns of the retry loop
NetworkErrors == {"ECONNREFUSED", "ECONNRESET", "timeout"}
UnclassifiedError == "socket hang up"

\* getProxyConfig(): throw new Error('Proxy configuration incomplete')
ProxyConfigError == "Proxy configuration incomplete"

\* the non-2xx statuses the upstream answers with
HttpStatuses == {429, 401, 403, 500}

\* the text of the error body the upstream sends with them: an empty object,
\* or a text in which the digits 429 occur (a count, an identifier)
ErrorBodies == {"{}", "429"}

\* `HTTP_ERROR_${elevenLabsResponse.status}: ${JSON.stringify(errorBody)}`.
\* The messages with the empty body are written without it.
HttpError(status, body) ==
    IF body = "{}"
    THEN CASE status = 429 -> "HTTP_ERROR_429"
           [] status = 401 -> "HTTP_ERROR_401"
           [] status = 403 -> "HTTP_ERROR_403"
           [] OTHER        -> "HTTP_ERROR_500"
    ELSE CASE status = 429 -> "HTTP_ERROR_429: 429"
           [] status = 401 -> "HTTP_ERROR_401: 429"
           [] status = 403 -> "HTTP_ERROR_403: 429"
           [] OTHER        -> "HTTP_ERROR_500: 429"

HttpErrors == {HttpError(st, b) : st \in HttpStatuses, b \in ErrorBodies}

\* error.message.startsWith('HTTP_ERROR_')
startsWithHttpError(e) == e \in HttpErrors

\* the strings the code searches for that occur in a message of the model
Contained(message) ==
    CASE message = "ECONNREFUSED"        -> {"ECONNREFUSED"}
      [] message = "ECONNRESET"          -> {"ECONNRESET"}
      [] message \in {"timeout", "Stream timeout"} -> {"timeout"}
      [] message = "HTTP_ERROR_429"      -> {"HTTP_ERROR_429", "429"}
      [] message = "HTTP_ERROR_429: 429" -> {"HTTP_ERROR_429", "429"}
      [] message = "HTTP_ERROR_401"      -> {"HTTP_ERROR_401"}
      [] message = "HTTP_ERROR_401: 429" -> {"HTTP_ERROR_401", "429"}
      [] message = "HTTP_ERROR_403"      -> {"HTTP_ERROR_403"}
      [] message = "HTTP_ERROR_403: 429" -> {"HTTP_ERROR_403", "429"}
      [] message = "HTTP_ERROR_500: 429" -> {"429"}
      [] message = "Circuit breaker is OPEN" -> {"Circuit breaker is OPEN"}
      [] OTHER                           -> {}

\* message.includes(searchString)
includes(message, searchString) == searchString \in Contained(message)

\* the Error object that carries a message: `new Error(errorMessage)`, and
\* what fetch rejects with. `lastError = error` and `throw lastError` pass
\* the object on as it is: no property is added to it.
ErrorObject(message) == [ name |-> "Error", message |-> message ]

\* rotation that is on unless it is switched off
enableDynamicRegions_defaultOn(e) == TRUE

\* const enableDynamicRegions = process.env.ENABLE_DYNAMIC_REGIONS === 'true'
enableDynamicRegions(e) == e.enableDynamicRegions = TRUE

\* a loop that allows one attempt more
maxRetries_oneMore(dyn) == IF dyn THEN 4 ELSE 2

\* const maxRetries = enableDynamicRegions ? 3 : 1
maxRetries(dyn) == IF dyn THEN 3 ELSE 1

\* a cap that is the loop's own bound for every class of error
getMaxRetriesForHttpError_uncapped(e, dyn) == maxRetries(dyn)

\* getMaxRetriesForHttpError(error)
getMaxRetriesForHttpError(e, dyn) ==
    IF \/ includes(e, "HTTP_ERROR_429")
       \/ includes(e, "HTTP_ERROR_401")
       \/ includes(e, "HTTP_ERROR_403")
    THEN 2
    ELSE IF startsWithHttpError(e)
         THEN 1
         ELSE maxRetries(dyn)

\* a loop for which every error is worth another attempt
isRetryableError_all(e) == TRUE

\* const isRetryableError = (...)
isRetryableError(e) ==
    \/ includes(e, "ECONNREFUSED")
    \/ includes(e, "ENOTFOUND")
    \/ includes(e, "ECONNRESET")
    \/ includes(e, "timeout")
    \/ includes(e, "ETIMEDOUT")
    \/ includes(e, "HTTP_ERROR_429")
    \/ includes(e, "HTTP_ERROR_401")
    \/ includes(e, "HTTP_ERROR_403")
    \/ startsWithHttpError(e)

\* const actualMaxRetries = ...
actualMaxRetries(e, dyn) ==
    IF startsWithHttpError(e)
    THEN getMaxRetriesForHttpError(e, dyn)
    ELSE maxRetries(dyn)

\* the `break` of the retry loop:
\* !enableDynamicRegions || !isRetryableError || retryCount === actualMaxRetries - 1
stopRetrying(e, retryCount, dyn) ==
    \/ ~dyn
    \/ ~isRetryableError(e)
    \/ retryCount = actualMaxRetries(e, dyn) - 1

\* Math.random(), in thousandths: 0 <= random < 1000
RandomValues == {0, 500, 999}

\* Math.min(a, b)
Min(a, b) == IF a <= b THEN a ELSE b

\* Math.pow(base, exponent) for a natural exponent
RECURSIVE Pow(_, _)
Pow(base, exponent) ==
    IF exponent = 0 THEN 1 ELSE base * Pow(base, exponent - 1)

\* a human-like delay that forgets to add minDelay
getRandomDelay_unshifted(isRetry, retryCount, random) ==
    (random * (maxDelay - minDelay)) \div 1000

\* getRandomDelay(isRetry, retryCount), in whole milliseconds (Math.floor)
getRandomDelay(isRetry, retryCount, random) ==
    IF isRetry
    THEN LET baseDelay == Min(minDelay * Pow(retryDelayMultiplier, retryCount),
                              maxRetryDelay)
         IN  baseDelay + (baseDelay * 3 * random) \div 10000
    ELSE (random * (maxDelay - minDelay)) \div 1000 + minDelay

\* a network backoff that counts from the first retry: 1 s, 1.5 s
getRetryDelay_fromZero(e, retryCount, random) ==
    IF startsWithHttpError(e)
    THEN 1000 + (random * 2000) \div 1000
    ELSE 1000 + ((retryCount - 1) * 500)

\* getRetryDelay(error, retryCount), in whole milliseconds
getRetryDelay(e, retryCount, random) ==
    IF startsWithHttpError(e)
    THEN 1000 + (random * 2000) \div 1000
    ELSE 1000 + (retryCount * 500)

\* robustTtsHandler's catch: the status of the error response
handlerErrorStatus(e) ==
    IF includes(e, "Circuit breaker is OPEN") THEN 503
    ELSE IF includes(e, "timeout") THEN 504
    ELSE IF includes(e, "ECONNREFUSED") \/ includes(e, "ENOTFOUND") THEN 502
    ELSE IF includes(e, "429") \/ includes(e, "Too Many Requests") THEN 429
    ELSE 502

----------------------------------------------------------------------------
(* Sessions: the browser profile of a voice and request body *)

\* randomIndex = Math.floor(Math.random() * BROWSER_PROFILES.length)
Profiles == 0..(NumProfiles - 1)

\* generateSessionId(voiceId, requestBody): `${voiceId}_${bodyHash}`. The
\* requests of the model all carry the same text, so that their session ids
\* differ by the voice id only.
generateSessionId(voiceId) == voiceId

\* a lookup that still returns the profile of a session at the instant it
\* reaches sessionDuration
getBrowserProfileForSession_inclusive(ss, sessionId, t, randomIndex) ==
    IF sessionId \in DOMAIN ss /\ t - ss[sessionId].startTime <= sessionDuration
    THEN [ sessions |-> ss, profile |-> ss[sessionId].profile ]
    ELSE [ sessions |-> MapSet(ss, sessionId, [ profile      |-> randomIndex,
                                               startTime    |-> t,
                                               requestCount |-> 0 ]),
           profile  |-> randomIndex ]

\* getBrowserProfileForSession(sessionId) at time t: the profile of the
\* session if it has one that is not expired, and a new session otherwise
getBrowserProfileForSession(ss, sessionId, t, randomIndex) ==
    IF sessionId \in DOMAIN ss /\ t - ss[sessionId].startTime < sessionDuration
    THEN [ sessions |-> ss, profile |-> ss[sessionId].profile ]
    ELSE [ sessions |-> MapSet(ss, sessionId, [ profile      |-> randomIndex,
                                               startTime    |-> t,
                                               requestCount |-> 0 ]),
           profile  |-> randomIndex ]

\* a sweep that drops every session as soon as one of them has expired
cleanupExpiredSessions_all(ss, t) ==
    IF \E x \in DOMAIN ss : t - ss[x].startTime >= sessionDuration
    THEN <<>>
    ELSE ss

\* cleanupExpiredSessions() at time t
cleanupExpiredSessions(ss, t) ==
    [ id \in { x \in DOMAIN ss : ~(t - ss[x].startTime >= sessionDuration) }
        |-> ss[id] ]

\* attemptElevenLabsAPICall, after fetch resolved:
\* if (activeSessions.has(sessionId)) activeSessions.get(sessionId).requestCount++
countRequest(ss, sessionId) ==
    IF sessionId \in DOMAIN ss
    THEN [ss EXCEPT ![sessionId].requestCount = @ + 1]
    ELSE ss

\* callElevenLabsAPI, after the loop: the branch of the if / else if chain
\* on lastError.message that deletes the session
clearsSession(e) ==
    /\ ~(includes(e, "ECONNREFUSED") \/ includes(e, "ENOTFOUND"))
    /\ ~includes(e, "timeout")
    /\ includes(e, "429") \/ includes(e, "Too Many Requests")

\* callElevenLabsAPI, after the loop: `if (lastError) { ... }`
finalFailure(ss, sessionId, e) ==
    IF clearsSession(e) THEN MapDelete(ss, sessionId) ELSE ss

----------------------------------------------------------------------------
(* robustTtsHandler, with callElevenLabsAPI and robustStreamResponse *)

Handlers == 1..NumHandlers

\* a handler slot with no request in it. status is the status of the
\* response whose error body is being read, profile the browserProfile of
\* the call and delay the delay being waited (the human-like delay, then
\* the retryDelay). attempts counts the calls of
\* attemptElevenLabsAPICall made for the slot's request and errors lists
\* what they threw, in order.
IdleRequest ==
    [ pc         |-> "idle",
      voiceId    |-> NoVoice,
      requestId  |-> 0,
      retryCount |-> 0,
      lastError  |-> "none",
      status     |-> 0,
      delay      |-> 0,
      profile    |-> NULL,
      started    |-> FALSE,
      attempts   |-> 0,
      errors     |-> <<>> ]

\* the handler of slot h returned: the slot is free again, and last keeps
\* the status written to the client (0: none), the error that ended the
\* request and its number of attempts
ReturnOf(h, r, sent, error) ==
    /\ req' = [req EXCEPT ![h] = IdleRequest]
    /\ last' = [ sent |-> sent, error |-> error, attempts |-> r.attempts ]

Return(h, sent, error) == ReturnOf(h, req[h], sent, error)

\* what a request can be: its method (or a missing voice id), its voice id,
\* whether its secret is valid, and its body: parsed by the framework,
\* parsed but blank, or left to be read from the stream
RequestKinds == {"POST", "OPTIONS", "GET", "noVoiceId"}
BodyKinds == {"parsed", "blank", "stream"}

\* the finally block: if (voiceId && requestId) finishRequest(voiceId, requestId)
finally(m, voiceId, requestId) ==
    IF voiceId # NoVoice /\ requestId # 0
    THEN finishRequest(m, voiceId, requestId)
    ELSE m

\* step 7 of the handler, `await elevenLabsCircuitBreaker.execute(...)`, up
\* to the first suspension: execute's entry, then either the breaker-open
\* error (caught by the handler: 503, finally) or callElevenLabsAPI up to
\* the await of its human-like delay, the lookup of the session's profile
\* included. m is the manager after the steps before, randomIndex and
\* random what Math.random() gives the profile and the delay.
CallUpstream(h, m, voiceId, requestId, randomIndex, random) ==
    LET e == execute_enter(cb, now)
        g == getBrowserProfileForSession(sessions, generateSessionId(voiceId),
                                         now, randomIndex)
    IN  /\ cb' = e.cb
        /\ IF e.invoke
           THEN /\ cm' = m
                /\ sessions' = g.sessions
                /\ req' = [req EXCEPT ![h] =
                              [IdleRequest EXCEPT !.pc = "humanDelay",
                                                  !.voiceId = voiceId,
                                                  !.requestId = requestId,
                                                  !.profile = g.profile,
                                                  !.delay =
                                                     getRandomDelay(FALSE, 0,
                                                                    random)]]
                /\ last' = last
           ELSE /\ cm' = finally(m, voiceId, requestId)
                /\ sessions' = sessions
                /\ Return(h,
                          handlerErrorStatus("Circuit breaker is OPEN"),
                          "Circuit breaker is OPEN")

\* a request arrives: the handler runs from its first line to its first
\* suspension point, or to its end
HandlerArrive(h, kind, voiceId, authValid, body, randomIndex, random) ==
    /\ req[h].pc = "idle"
    /\ \A g \in Handlers : g < h => req[g].pc # "idle"
    /\ cm.requestCounter < MaxRequests
    /\ LET g  == generateRequestId(cm)
           m0 == g.cm
           id == g.id
           c  == canProcessRequest(m0, voiceId)
           m1 == startRequest(c.cm, voiceId, id)
       IN  CASE kind = "OPTIONS" ->
                  /\ cm' = finally(m0, NoVoice, id)
                  /\ Return(h, 200, "none")
                  /\ UNCHANGED <<cb, sessions>>
             [] kind = "GET" ->
                  /\ cm' = finally(m0, NoVoice, id)
                  /\ Return(h, 405, "Method not allowed")
                  /\ UNCHANGED <<cb, sessions>>
             [] kind = "noVoiceId" ->
                  /\ cm' = finally(m0, NoVoice, id)
                  /\ Return(h, 400, "Voice ID is required")
                  /\ UNCHANGED <<cb, sessions>>
             [] kind = "POST" /\ ~authValid ->
                  /\ cm' = finally(m0, voiceId, id)
                  /\ Return(h, 401, "Unauthorized")
                  /\ UNCHANGED <<cb, sessions>>
             [] kind = "POST" /\ authValid /\ ~c.ok ->
                  /\ cm' = finally(c.cm, voiceId, id)
                  /\ Return(h, 429,
                            "Too many concurrent requests for this voice")
                  /\ UNCHANGED <<cb, sessions>>
             [] kind = "POST" /\ authValid /\ c.ok /\ ~isHealthy(cb) ->
                  /\ cm' = finally(c.cm, voiceId, id)
                  /\ Return(h, 503, "Service temporarily unavailable")
                  /\ UNCHANGED <<cb, sessions>>
             [] kind = "POST" /\ authValid /\ c.ok /\ isHealthy(cb)
                  /\ body = "blank" ->
                  /\ cm' = finally(m1, voiceId, id)
                  /\ Return(h, 400, "Invalid request body")
                  /\ UNCHANGED <<cb, sessions>>
             [] kind = "POST" /\ authValid /\ c.ok /\ isHealthy(cb)
                  /\ body = "stream" ->
                  /\ cm' = m1
                  /\ req' = [req EXCEPT ![h] =
                                [IdleRequest EXCEPT !.pc = "readBody",
                                                    !.voiceId = voiceId,
                                                    !.requestId = id]]
                  /\ last' = last
                  /\ UNCHANGED <<cb, sessions>>
             [] OTHER ->
                  CallUpstream(h, m1, voiceId, id, randomIndex, random)
    /\ UNCHANGED <<now, env, stream, route, ops, calls>>

\* `for await (const chunk of req)` ended: with a body, or with none or an
\* error of the request stream (400, finally)
HandlerBodyRead(h, bodyOk, randomIndex, random) ==
    /\ req[h].pc = "readBody"
    /\ IF bodyOk
       THEN CallUpstream(h, cm, req[h].voiceId, req[h].requestId, randomIndex,
                         random)
       ELSE /\ cm' = finally(cm, req[h].voiceId, req[h].requestId)
            /\ Return(h, 400,
                      "Invalid request body")
            /\ UNCHANGED <<cb, sessions>>
    /\ UNCHANGED <<now, env, stream, route, ops, calls>>

\* the attempt failed with error e: the catch block of the retry loop, then
\* either the next iteration up to the await of its retryDelay (random is
\* what Math.random() returns there), or `throw lastError` through
\* execute's catch and the handler's catch and finally
AttemptFailed(h, r, e, random) ==
    LET dyn == enableDynamicRegions(env)
    IN  IF \/ stopRetrying(e, r.retryCount, dyn)
           \/ ~(r.retryCount + 1 < maxRetries(dyn))
        THEN /\ cb' = execute_catch(cb, now)
             /\ cm' = finally(cm, r.voiceId, r.requestId)
             /\ sessions' = finalFailure(sessions,
                                         generateSessionId(r.voiceId), e)
             /\ ReturnOf(h, r, handlerErrorStatus(e), e)
        ELSE /\ req' = [req EXCEPT ![h] =
                           [r EXCEPT !.pc = "backoff",
                                     !.retryCount = @ + 1,
                                     !.lastError = e,
                                     !.status = 0,
                                     !.delay =
                                        getRetryDelay(e, r.retryCount + 1, random),
                                     !.errors = Append(@, e)]]
             /\ UNCHANGED <<cb, cm, last, sessions>>

\* attemptElevenLabsAPICall is called for the request r of slot h: it throws
\* at once when getDynamicProxyAgent() finds the proxy configuration
\* incomplete, and awaits fetch otherwise
StartAttempt(h, r) ==
    LET a == [r EXCEPT !.attempts = @ + 1, !.delay = 0]
    IN  IF env.proxyConfigured
        THEN /\ req' = [req EXCEPT ![h] = [a EXCEPT !.pc = "fetch"]]
             /\ UNCHANGED <<cb, cm, last, sessions>>
        ELSE AttemptFailed(h, a, ProxyConfigError, 0)

\* callElevenLabsAPI: the human-like delay elapsed, the loop starts attempt 0
HandlerDelayDone(h) ==
    /\ req[h].pc = "humanDelay"
    /\ StartAttempt(h, [req[h] EXCEPT !.retryCount = 0])
    /\ UNCHANGED <<now, env, stream, route, ops, calls>>

\* fetch resolved with a response. 2xx: callElevenLabsAPI returns, execute
\* books the success, the handler starts robustStreamResponse, whose
\* body.pipe(res) may throw (rejected, handler's catch: 502). Otherwise
\* attemptElevenLabsAPICall awaits the error body.
HandlerFetchResponds(h, status, pipeThrows) ==
    /\ req[h].pc = "fetch"
    /\ sessions' = countRequest(sessions, generateSessionId(req[h].voiceId))
    /\ IF status = 200
       THEN /\ cb' = execute_then(cb, now)
            /\ IF pipeThrows
               THEN /\ cm' = finally(cm, req[h].voiceId, req[h].requestId)
                    /\ Return(h,
                              handlerErrorStatus("pipe error"), "pipe error")
               ELSE /\ cm' = cm
                    /\ req' = [req EXCEPT ![h].pc = "relay", ![h].started = FALSE]
                    /\ last' = last
       ELSE /\ req' = [req EXCEPT ![h].pc = "errorBody",
                                  ![h].status = status]
            /\ UNCHANGED <<cb, cm, last>>
    /\ UNCHANGED <<now, env, stream, route, ops, calls>>

\* fetch rejected with error e
HandlerFetchRejects(h, e) ==
    /\ req[h].pc = "fetch"
    /\ AttemptFailed(h, req[h], e, 0)
    /\ UNCHANGED <<now, env, stream, route, ops, calls>>

\* the error body was read: attemptElevenLabsAPICall throws HTTP_ERROR_<status>
HandlerErrorBodyRead(h, random, body) ==
    /\ req[h].pc = "errorBody"
    /\ AttemptFailed(h, req[h], HttpError(req[h].status, body), random)
    /\ UNCHANGED <<now, env, stream, route, ops, calls>>

\* the backoff delay elapsed: the next attempt starts
HandlerBackoffDone(h) ==
    /\ req[h].pc = "backoff"
    /\ StartAttempt(h, req[h])
    /\ UNCHANGED <<now, env, stream, route, ops, calls>>

\* robustStreamResponse, body 'data': the first bytes reach the sink
RelayData(h) ==
    /\ req[h].pc = "relay"
    /\ ~req[h].started
    /\ req' = [req EXCEPT ![h].started = TRUE]
    /\ UNCHANGED <<now, env, stream, route, cb, cm, last, ops, calls,
                   sessions>>

\* body 'end': finished, resolve(true); the handler logs and runs finally
RelayEnd(h) ==
    /\ req[h].pc = "relay"
    /\ cm' = finally(cm, req[h].voiceId, req[h].requestId)
    /\ Return(h, 200, "none")
    /\ UNCHANGED <<now, env, stream, route, cb, ops, calls, sessions>>

\* the relay rejected with error e: the handler's catch answers through
\* safeSendError, which writes only while no header was sent, then finally
RelayRejected(h, e) ==
    /\ cm' = finally(cm, req[h].voiceId, req[h].requestId)
    /\ Return(h,
              IF req[h].started THEN 200 ELSE handlerErrorStatus(e), e)

\* body 'error': errored, the sink is destroyed if data had started, reject
RelayBodyError(h) ==
    /\ req[h].pc = "relay"
    /\ RelayRejected(h, "source stream error")
    /\ UNCHANGED <<now, env, stream, route, cb, ops, calls, sessions>>

\* res 'error': errored, the body is destroyed, reject
RelayResError(h) ==
    /\ req[h].pc = "relay"
    /\ RelayRejected(h, "response stream error")
    /\ UNCHANGED <<now, env, stream, route, cb, ops, calls, sessions>>

\* the 30 s timer fires: aborted, the body is destroyed, reject
RelayTimeout(h) ==
    /\ req[h].pc = "relay"
    /\ RelayRejected(h, "Stream timeout")
    /\ UNCHANGED <<now, env, stream, route, cb, ops, calls, sessions>>

\* res 'close' before the body ended (the client disconnected): the timer is
\* cleared and the body destroyed, and the promise is neither resolved nor
\* rejected. A destroyed body emits neither 'end' nor 'error' and the timer
\* is gone, so nothing is left that could settle it.
RelayResClose(h) ==
    /\ req[h].pc = "relay"
    /\ req' = [req EXCEPT ![h].pc = "relayClosed"]
    /\ UNCHANGED <<now, env, stream, route, cb, cm, last, ops, calls,
                   sessions>>

\* setInterval(cleanupExpiredSessions, 5 * 60 * 1000): a run of the sweep
\* that finds a session to delete
Sweep ==
    /\ cleanupExpiredSessions(sessions, now) # sessions
    /\ sessions' = cleanupExpiredSessions(sessions, now)
    /\ UNCHANGED <<now, env, stream, route, cb, cm, req, last, ops, calls>>

\* the process as it starts, under the configuration cfg
Start(cfg) ==
    /\ now = 0
    /\ env = cfg
    /\ cb = CircuitBreaker
    /\ cm = ConcurrencyManager(cfg.concurrencyEnabled)
    /\ req = [h \in Handlers |-> IdleRequest]
    /\ last = NoOutcome
    /\ ops = <<>>
    /\ calls = 0
    /\ sessions = <<>>
    /\ stream = NoStream
    /\ route = NoRoute

\* Spec: admission control on, rotation off (its default), the proxy
\* configured
Init ==
    \E cfg \in [concurrencyEnabled : {TRUE}, enableDynamicRegions : {FALSE},
                 proxyConfigured : {TRUE}] :
        Start(cfg)

\* RetrySpec: admission control off (its default), rotation on or off, the
\* proxy configured or not
RetryInit ==
    \E cfg \in [concurrencyEnabled : {FALSE}, enableDynamicRegions : BOOLEAN,
                 proxyConfigured : BOOLEAN] :
        Start(cfg)

\* Spec: requests of every kind on two voices, several in flight. The
\* upstream answers 200, 429 or 500 with an empty error body, or the
\* connection is refused or times out; the profile drawn for a new session
\* is the first of the pool and the human-like delay the shortest.
Next ==
    \/ Tick
    \/ Sweep
    \/ \E h \in Handlers, kind \in RequestKinds, voiceId \in Keys,
          authValid \in BOOLEAN, body \in BodyKinds, randomIndex \in {0},
          random \in {0} :
          HandlerArrive(h, kind, voiceId, authValid, body, randomIndex, random)
    \/ \E h \in Handlers, bodyOk \in BOOLEAN, randomIndex \in {0},
          random \in {0} :
          HandlerBodyRead(h, bodyOk, randomIndex, random)
    \/ \E h \in Handlers : HandlerDelayDone(h)
    \/ \E h \in Handlers, status \in {200, 429, 500},
          pipeThrows \in BOOLEAN : HandlerFetchResponds(h, status, pipeThrows)
    \/ \E h \in Handlers, e \in {"ECONNREFUSED", "timeout"} :
          HandlerFetchRejects(h, e)
    \/ \E h \in Handlers, random \in {0}, body \in {"{}"} :
          HandlerErrorBodyRead(h, random, body)
    \/ \E h \in Handlers : RelayData(h)
    \/ \E h \in Handlers : RelayEnd(h)
    \/ \E h \in Handlers : RelayBodyError(h)
    \/ \E h \in Handlers : RelayResError(h)
    \/ \E h \in Handlers : RelayTimeout(h)
    \/ \E h \in Handlers : RelayResClose(h)

\* with rotation off no attempt is followed by a backoff, so Next has no
\* step for its end
Spec == Init /\ [][Next]_vars

\* what the event loop and the environment owe a request in flight: its
\* pending I/O completes, its timers fire, its continuations run
HandlerStep(h) ==
    \/ \E bodyOk \in BOOLEAN, randomIndex \in Profiles,
          random \in RandomValues :
          HandlerBodyRead(h, bodyOk, randomIndex, random)
    \/ HandlerDelayDone(h)
    \/ \E status \in {200} \cup HttpStatuses, pipeThrows \in BOOLEAN :
          HandlerFetchResponds(h, status, pipeThrows)
    \/ \E e \in NetworkErrors \cup {UnclassifiedError} : HandlerFetchRejects(h, e)
    \/ \E random \in RandomValues, body \in ErrorBodies :
          HandlerErrorBodyRead(h, random, body)
    \/ HandlerBackoffDone(h)
    \/ RelayData(h)
    \/ RelayEnd(h)
    \/ RelayBodyError(h)
    \/ RelayResError(h)
    \/ RelayTimeout(h)
    \/ RelayResClose(h)

\* Spec, where no request in flight is left waiting forever for a step that
\* is possible
FairSpec == Spec /\ \A h \in Handlers : WF_vars(HandlerStep(h))

\* a request arrives while no other is in flight
SerialArrive(kind, voiceId, authValid, body, randomIndex, random) ==
    /\ \A h \in Handlers : req[h].pc = "idle"
    /\ cm.requestCounter < MaxLogicalCalls
    /\ HandlerArrive(1, kind, voiceId, authValid, body, randomIndex, random)

\* the handler serving one request at a time, retries included. The
\* requests are authenticated POSTs for one voice with a parsed body, the
\* upstream answers or fails in every way of the model, and a body that is
\* relayed is relayed to its end.
RetryNext ==
    \/ Tick
    \/ Sweep
    \/ \E voiceId \in {"voiceA"}, body \in {"parsed"},
          randomIndex \in Profiles, random \in RandomValues :
          SerialArrive("POST", voiceId, TRUE, body, randomIndex, random)
    \/ \E h \in Handlers : HandlerDelayDone(h)
    \/ \E h \in Handlers, status \in {200} \cup HttpStatuses,
          pipeThrows \in BOOLEAN : HandlerFetchResponds(h, status, pipeThrows)
    \/ \E h \in Handlers, e \in NetworkErrors \cup {UnclassifiedError} :
          HandlerFetchRejects(h, e)
    \/ \E h \in Handlers, random \in RandomValues, body \in ErrorBodies :
          HandlerErrorBodyRead(h, random, body)
    \/ \E h \in Handlers : HandlerBackoffDone(h)
    \/ \E h \in Handlers : RelayData(h)
    \/ \E h \in Handlers : RelayEnd(h)

RetrySpec == RetryInit /\ [][RetryNext]_vars

----------------------------------------------------------------------------
(* Steps of execute, recognised by the counter only they change *)

\* execute was called
ExecuteCalled == cb'.requestCount = cb.requestCount + 1
\* an operation returned and execute did its bookkeeping
OperationReturned == cb'.stats.totalSuccesses = cb.stats.totalSuccesses + 1
\* an operation threw and execute did its bookkeeping
OperationThrew == cb'.stats.totalFailures = cb.stats.totalFailures + 1
\* now - lastFailureTime as execute computes it
Elapsed == now - ToNumber(cb.lastFailureTime)
\* the step is an execute call of some caller that threw the breaker-open error
ThrewBreakerOpen ==
    \E c \in Callers : /\ ops[c].pc = "idle"
                        /\ ops'[c].pc = "idle"
                        /\ ops'[c].result = "BreakerOpen"
\* the step invoked the operation of some caller
InvokedOperation ==
    /\ calls' = calls + 1
    /\ \E c \in Callers : ops[c].pc = "idle" /\ ops'[c].pc = "running"

----------------------------------------------------------------------------
(* Claims about the CircuitBreaker, checked under BreakerSpec *)

\* C3: while the breaker is OPEN and now - lastFailureTime < resetTimeout,
\* an execute call throws the breaker-open error, does not invoke the
\* operation, and leaves state, failures, lastFailureTime (and successCount
\* and the success/failure/open statistics) as they were; only requestCount
\* and stats.totalRequests grow.
C3_ShortCircuit ==
    [][ (ExecuteCalled /\ cb.state = "OPEN" /\ Elapsed < resetTimeout)
        => /\ ThrewBreakerOpen
           /\ calls' = calls
           /\ cb'.state = "OPEN"
           /\ cb'.failures = cb.failures
           /\ cb'.lastFailureTime = cb.lastFailureTime
           /\ cb'.successCount = cb.successCount
           /\ cb'.stats.totalFailures = cb.stats.totalFailures
           /\ cb'.stats.totalSuccesses = cb.stats.totalSuccesses
           /\ cb'.stats.circuitOpenCount = cb.stats.circuitOpenCount
           /\ cb'.stats.totalRequests = cb.stats.totalRequests + 1 ]_vars

\* C3 witness: threshold = 3 failures opened the breaker, the 4th execute
\* came before the timeout and was refused: the call counter stays at 3
C3_Witness ==
    /\ cb.state = "OPEN"
    /\ cb.requestCount = failureThreshold + 1
    /\ calls = failureThreshold
    /\ cb.failures = failureThreshold
    /\ Elapsed < resetTimeout
    /\ \E c \in Callers : ops[c].result = "BreakerOpen"

\* C4 (as claimed): in state OPEN an execute call short-circuits exactly
\* when now - lastFailureTime < resetTimeout, and with
\* now - lastFailureTime >= resetTimeout (equality included) it moves the
\* breaker to HALF_OPEN and invokes the operation.
C4_Claim ==
    [][ (ExecuteCalled /\ cb.state = "OPEN")
        => /\ (Elapsed < resetTimeout) <=> ThrewBreakerOpen
           /\ (Elapsed >= resetTimeout)
                => (cb'.state = "HALF_OPEN" /\ InvokedOperation) ]_vars

\* C6 (as claimed): in state CLOSED a successful operation resets the
\* failure count to 0.
C6_Claim ==
    [][ (OperationReturned /\ cb.state = "CLOSED") => cb'.failures = 0 ]_vars

\* C7: when an operation invoked in HALF_OPEN throws while the state is
\* still HALF_OPEN, that step moves the breaker to OPEN, sets
\* lastFailureTime to the current time and adds exactly one to
\* stats.circuitOpenCount.
C7_HalfOpenFailure ==
    [][ (/\ OperationThrew
         /\ cb.state = "HALF_OPEN"
         /\ \E c \in Callers : /\ ops[c].pc = "running"
                                /\ ops[c].entered = "HALF_OPEN"
                                /\ ops'[c].result = "threw")
        => /\ cb'.state = "OPEN"
           /\ cb'.lastFailureTime = now
           /\ cb'.stats.circuitOpenCount = cb.stats.circuitOpenCount + 1 ]_vars

\* C7 witness: the probe invoked in HALF_OPEN threw and the breaker is OPEN
\* for the second time, one failure after the threshold
C7_Witness ==
    /\ cb.state = "OPEN"
    /\ cb.stats.circuitOpenCount = 2
    /\ cb.stats.totalFailures = failureThreshold + 1
    /\ cb.lastFailureTime = now
    /\ \E c \in Callers : ops[c].entered = "HALF_OPEN" /\ ops[c].result = "threw"

\* C8 (as claimed): in HALF_OPEN each success adds one to successCount, one
\* success alone leaves the breaker HALF_OPEN, and the 2nd success moves it
\* to CLOSED with failures and successCount both reset to 0.
C8_Claim ==
    [][ (OperationReturned /\ cb.state = "HALF_OPEN")
        => IF cb.successCount + 1 >= recoveryThreshold
           THEN cb'.state = "CLOSED" /\ cb'.failures = 0 /\ cb'.successCount = 0
           ELSE cb'.state = "HALF_OPEN"
                /\ cb'.successCount = cb.successCount + 1 ]_vars

\* C8 (amended): in HALF_OPEN each success adds one to successCount, one
\* success alone leaves the breaker HALF_OPEN with failures untouched, and
\* the 2nd success moves it to CLOSED with failures reset to 0 while
\* successCount stays at 2.
C8_HalfOpenSuccess ==
    [][ (OperationReturned /\ cb.state = "HALF_OPEN")
        => /\ cb'.successCount = cb.successCount + 1
           /\ IF cb'.successCount >= recoveryThreshold
              THEN /\ cb'.state = "CLOSED"
                   /\ cb'.failures = 0
                   /\ cb'.successCount = recoveryThreshold
              ELSE /\ cb'.state = "HALF_OPEN"
                   /\ cb'.failures = cb.failures ]_vars

\* C8 witness: two successes in HALF_OPEN closed the breaker
C8_Witness ==
    /\ cb.state = "CLOSED"
    /\ cb.stats.circuitOpenCount = 1
    /\ cb.stats.totalSuccesses = recoveryThreshold
    /\ cb.stats.totalFailures = failureThreshold
    /\ cb.failures = 0
    /\ cb.successCount = recoveryThreshold

\* C9: state = OPEN implies lastFailureTime is not null, whatever the
\* interleaving of execute calls, completions and reset() calls.
C9_OpenHasFailureTime ==
    cb.state = "OPEN" => cb.lastFailureTime # NULL

\* C9 witness: the breaker is OPEN again after reset() had cleared
\* lastFailureTime and the failure count
C9_Witness ==
    /\ cb.state = "OPEN"
    /\ cb.stats.circuitOpenCount = 2
    /\ cb.stats.totalSuccesses = 0
    /\ cb.stats.totalFailures = 2 * failureThreshold
    /\ cb.failures = failureThreshold

----------------------------------------------------------------------------
(* Claims about the request handler, checked under Spec, FairSpec and RetrySpec *)

\* request id is recorded in the admission record
Recorded(id) == \E k \in DOMAIN cm.activeRequests : id \in cm.activeRequests[k]

\* C1: with admission control enabled and maxConcurrentPerVoice = N, no key
\* ever holds more than N request ids; while a key holds N the next
\* canProcessRequest for it returns false; and after finishRequest of any
\* one of its ids the next canProcessRequest for it returns true.
C1_AdmissionBound ==
    cm.concurrencyEnabled =>
        \A k \in Keys :
            /\ activeCount(cm, k) <= cm.maxConcurrentPerVoice
            /\ activeCount(cm, k) = cm.maxConcurrentPerVoice
                  => ~canProcessRequest(cm, k).ok
            /\ k \in DOMAIN cm.activeRequests =>
                  \A id \in cm.activeRequests[k] :
                      canProcessRequest(finishRequest(cm, k, id), k).ok

\* C1 witness: a request was rejected while its key was full, one of the
\* key's requests finished, and a later request was admitted: the key is
\* full again
C1_Witness ==
    /\ cm.concurrencyEnabled
    /\ cm.stats.rejectedRequests = 1
    /\ cm.stats.totalRequests = cm.maxConcurrentPerVoice + 1
    /\ cm.requestCounter = cm.maxConcurrentPerVoice + 2
    /\ \E k \in Keys : /\ DOMAIN cm.activeRequests = {k}
                       /\ activeCount(cm, k) = cm.maxConcurrentPerVoice

\* C2 (as claimed): every request id recorded by startRequest is eventually
\* removed from the admission record, whatever the outcome of the request.
C2_Claim ==
    \A id \in 1..MaxRequests : Recorded(id) ~> ~Recorded(id)

\* C5 (as claimed): when the breaker is OPEN and resetTimeout has elapsed, a
\* request that arrives and passes authentication and admission has its
\* upstream operation invoked through execute, which moves the breaker to
\* HALF_OPEN.
C5_Claim ==
    [][ (/\ cm'.requestCounter = cm.requestCounter + 1
         /\ cb.state = "OPEN"
         /\ Elapsed > resetTimeout
         /\ \/ \E h \in Handlers : req'[h].requestId = cm'.requestCounter
            \/ last'.error \notin
                  { "none", "Method not allowed", "Voice ID is required",
                    "Unauthorized",
                    "Too many concurrent requests for this voice" })
        => (ExecuteCalled /\ cb'.state = "HALF_OPEN") ]_vars

\* the step ends an attempt of slot h in failure
AttemptFailsIn(h) ==
    \/ /\ req[h].pc = "fetch"
       /\ req'[h].pc \notin {"fetch", "errorBody", "relay"}
       /\ ~OperationReturned
    \/ /\ req[h].pc = "errorBody"
       /\ req'[h].pc # "errorBody"
    \/ /\ req[h].pc \in {"humanDelay", "backoff"}
       /\ req'[h].pc \notin {"humanDelay", "backoff", "fetch"}

\* the number of attempts made by the request of slot h once this step, in
\* which one of them fails, is taken
AttemptsMadeIn(h) ==
    IF req[h].pc \in {"humanDelay", "backoff"}
    THEN req[h].attempts + 1
    ELSE req[h].attempts

\* C10: with rotation disabled a logical call makes exactly one attempt,
\* whatever the class of its error: no request is ever in a backoff or at a
\* second attempt, and the step in which the attempt fails ends the call,
\* with that attempt's error thrown through execute (booked as a failure)
\* to the handler.
C10_OneAttemptWithoutRotation ==
    [][ env.enableDynamicRegions = FALSE =>
          \A h \in Handlers :
             /\ req'[h].pc # "backoff"
             /\ req'[h].attempts <= 1
             /\ AttemptFailsIn(h) =>
                   /\ AttemptsMadeIn(h) = 1
                   /\ req'[h].pc = "idle"
                   /\ last'.attempts = 1
                   /\ last'.error \in NetworkErrors \cup HttpErrors
                                \cup {UnclassifiedError, ProxyConfigError}
                   /\ req[h].pc = "errorBody"
                         => last'.error \in { HttpError(req[h].status, b) :
                                                b \in ErrorBodies }
                   /\ OperationThrew ]_vars

\* C10 witness: with rotation disabled a call ended on an HTTP 429 after one
\* attempt
C10_Witness ==
    /\ env.enableDynamicRegions = FALSE
    /\ last.error = "HTTP_ERROR_429"
    /\ last.attempts = 1
    /\ cb.stats.totalFailures = 1
    /\ \A h \in Handlers : req[h].pc = "idle"

----------------------------------------------------------------------------
(* Claims about the retry loop of callElevenLabsAPI, checked under RetrySpec *)

\* the error of the attempt of slot h that fails in this step: the one the
\* step records for the backoff, or reports
FailingError(h) ==
    IF req'[h].pc = "backoff" THEN req'[h].lastError ELSE last'.error

\* HTTP 429, 401 and 403
RateOrAuthErrors ==
    { HttpError(st, b) : st \in {429, 401, 403}, b \in ErrorBodies }

\* C11: with rotation enabled, an attempt with index 0 that fails with HTTP
\* 429, 401 or 403 is followed by a second attempt, and when the attempt
\* with index 1 fails with one of them the call ends with that error after
\* exactly 2 attempts; a backoff that follows one of these errors is never
\* the one before a third attempt.
C11_TwoAttemptsOnRateOrAuth ==
    [][ env.enableDynamicRegions = TRUE =>
          \A h \in Handlers :
             /\ (AttemptFailsIn(h) /\ FailingError(h) \in RateOrAuthErrors) =>
                   /\ req[h].retryCount = 0 => req'[h].pc = "backoff"
                   /\ req[h].retryCount = 1 =>
                         /\ req'[h].pc = "idle"
                         /\ last'.attempts = 2
                         /\ last'.error = FailingError(h)
                         /\ OperationThrew
             /\ (req'[h].pc = "backoff"
                   /\ req'[h].lastError \in RateOrAuthErrors)
                   => req'[h].retryCount = 1 ]_vars

\* C11 witness: with rotation enabled, the second attempt of a call whose
\* first attempt failed with HTTP 429 was answered 429 too, after a first
\* call that ended on HTTP 429 after two attempts
C11_Witness ==
    /\ env.enableDynamicRegions = TRUE
    /\ last.error = "HTTP_ERROR_429"
    /\ last.attempts = 2
    /\ cb.stats.totalFailures = 1
    /\ \E h \in Handlers : /\ req[h].pc = "errorBody"
                            /\ req[h].status = 429
                            /\ req[h].errors = <<"HTTP_ERROR_429">>
                            /\ req[h].retryCount = 1
                            /\ req[h].attempts = 2

\* C12 (as claimed): with rotation enabled, an attempt that fails with an
\* HTTP error other than 429/401/403 is never followed by another attempt,
\* and an attempt with index >= 1 that fails with 429/401/403 is never
\* followed by another attempt, whatever the earlier attempts failed with.
C12_Claim ==
    [][ env.enableDynamicRegions = TRUE =>
          \A h \in Handlers :
             AttemptFailsIn(h) =>
                /\ FailingError(h) \in HttpErrors \ RateOrAuthErrors
                      => req'[h].pc = "idle"
                /\ (FailingError(h) \in RateOrAuthErrors
                      /\ req[h].retryCount >= 1)
                      => req'[h].pc = "idle" ]_vars

C15_Claim ==
    [][ \A h \in Handlers :
          (AttemptFailsIn(h) /\ req'[h].pc = "idle") =>
             LET thrown == ErrorObject(last'.error)
             IN  /\ thrown.message = FailingError(h)
                 /\ "attemptCount" \in DOMAIN thrown
                 /\ thrown.attemptCount = AttemptsMadeIn(h) ]_vars

----------------------------------------------------------------------------
(* RelaySpec: one invocation of robustStreamResponse under every ordering *)
(* of the events of the upstream body, of the response and of the timer   *)

\* setTimeout(..., 30000)
streamTimeoutMs == 2

\* the other variables of the module
notStream == <<env, cb, cm, req, last, ops, calls, sessions, route>>

\* robustTtsHandler calls robustStreamResponse
StreamStart(pipeThrows) ==
    /\ stream.pc = "notCalled"
    /\ stream' = callerContinues(robustStreamResponse(stream, now, pipeThrows))
    /\ UNCHANGED <<now, notStream>>

\* the body emits 'data': the relay's listener and the pipe's run
StreamData ==
    /\ stream.listeners
    /\ stream.body = "flowing"
    /\ stream' = callerContinues(pipeOnData(bodyOnData(stream)))
    /\ UNCHANGED <<now, notStream>>

\* the body emits 'end'
StreamEnd ==
    /\ stream.listeners
    /\ stream.body = "flowing"
    /\ stream' = callerContinues(
                     pipeOnEnd(bodyOnEnd([stream EXCEPT !.body = "ended"])))
    /\ UNCHANGED <<now, notStream>>

\* the body emits 'error'
StreamBodyError ==
    /\ stream.listeners
    /\ stream.body = "flowing"
    /\ stream' = callerContinues(
                     bodyOnError([stream EXCEPT !.body = "errored"]))
    /\ UNCHANGED <<now, notStream>>

\* res emits 'error': a response that was neither destroyed nor closed
\* fails, which destroys it
StreamResError ==
    /\ stream.listeners
    /\ ~stream.resDestroyed
    /\ ~stream.resClosed
    /\ stream' = callerContinues(
                     resOnError([resDestroy(stream)
                                    EXCEPT !.resErrored = TRUE]))
    /\ UNCHANGED <<now, notStream>>

\* res emits 'close': the client disconnected, or the response was
\* destroyed, or it was sent whole
StreamResClose ==
    /\ stream.listeners
    /\ ~stream.resClosed
    /\ stream' = callerContinues(
                     resOnClose([resDestroy(stream)
                                    EXCEPT !.resClosed = TRUE]))
    /\ UNCHANGED <<now, notStream>>

\* the timer fires, 30 s after it was armed unless it was cleared
StreamTimeout ==
    /\ stream.streamTimeout = "armed"
    /\ now - stream.startTime >= streamTimeoutMs
    /\ stream' = callerContinues(streamTimeoutFires(stream))
    /\ UNCHANGED <<now, notStream>>

\* the response object as robustStreamResponse finds it: untouched, or with
\* its headers already sent
RelayInit ==
    /\ now = 0
    /\ env = [concurrencyEnabled |-> FALSE, enableDynamicRegions |-> FALSE]
    /\ cb = CircuitBreaker
    /\ cm = <<>>
    /\ req = <<>>
    /\ last = NoOutcome
    /\ ops = <<>>
    /\ calls = 0
    /\ sessions = <<>>
    /\ \E sent \in BOOLEAN : stream = [NoStream EXCEPT !.headersSent = sent]
    /\ route = NoRoute

RelayNext ==
    \/ Tick
    \/ \E pipeThrows \in BOOLEAN : StreamStart(pipeThrows)
    \/ StreamData
    \/ StreamEnd
    \/ StreamBodyError
    \/ StreamResError
    \/ StreamResClose
    \/ StreamTimeout

RelaySpec == RelayInit /\ [][RelayNext]_vars

\* the event loop runs every callback that is due, and time passes
RelayFairSpec == RelaySpec /\ WF_vars(RelayNext)

----------------------------------------------------------------------------
(* RouteSpec: the routes resolved by the attempts of                      *)
(* attemptElevenLabsAPICall                                               *)

\* attempts over the whole run
MaxRouteAttempts == 3

\* the other variables of the module
notRoute == <<now, env, cb, cm, req, last, ops, calls, sessions, stream>>

\* one attempt resolves its routes; random1 and random2 are the values of
\* Math.random() of the draws it makes
RouteAttempt(random1, random2) ==
    /\ route.attempt < MaxRouteAttempts
    /\ route' = resolveRoutes(env, route, random1, random2)
    /\ UNCHANGED notRoute

\* the region manager reloads its pool between two attempts
RoutePoolReload(pool) ==
    /\ route.attempt < MaxRouteAttempts
    /\ pool # route.pool
    /\ route' = [route EXCEPT !.pool = pool]
    /\ UNCHANGED notRoute

RouteInit ==
    /\ now = 0
    /\ \E cfg \in [concurrencyEnabled : {FALSE},
                    enableDynamicRegions : BOOLEAN,
                    proxyConfigured : BOOLEAN] : env = cfg
    /\ cb = CircuitBreaker
    /\ cm = <<>>
    /\ req = <<>>
    /\ last = NoOutcome
    /\ ops = <<>>
    /\ calls = 0
    /\ sessions = <<>>
    /\ stream = NoStream
    /\ \E pool \in RegionPools : route = [NoRoute EXCEPT !.pool = pool]

RouteNext ==
    \/ \E random1, random2 \in RandomValues : RouteAttempt(random1, random2)
    \/ \E pool \in RegionPools : RoutePoolReload(pool)

RouteSpec == RouteInit /\ [][RouteNext]_vars

----------------------------------------------------------------------------
(* Claims about the sessions, checked under RetrySpec *)

\* C16 (as claimed): when a call ends in a final failure whose last error is
\* an HTTP 429, the session of its session id is gone from the store when
\* the error is thrown; when it ends in a final failure of any other class
\* (network, 401, 403, other HTTP), the session is left as it was.
C16_Claim ==
    [][ \A h \in Handlers :
          (AttemptFailsIn(h) /\ req'[h].pc = "idle") =>
             LET id == generateSessionId(req[h].voiceId)
             IN  IF last'.error \in { HttpError(429, b) : b \in ErrorBodies }
                 THEN id \notin DOMAIN sessions'
                 ELSE id \in DOMAIN sessions =>
                         /\ id \in DOMAIN sessions'
                         /\ sessions'[id] = sessions[id] ]_vars

\* the step is the lookup of the session's profile by the call of slot h
LooksUpSession(h) ==
    /\ req[h].pc \in {"idle", "readBody"}
    /\ req'[h].pc = "humanDelay"

\* C17: a lookup made while now - startTime < sessionDuration returns the
\* profile of the session and leaves the store as it is; a lookup made when
\* there is no session, or when now - startTime >= sessionDuration, returns
\* the profile of a new session with startTime = now and requestCount = 0;
\* and the profile of a session never changes while the session lasts.
C17_SessionLookup ==
    [][ /\ \A h \in Handlers :
             LooksUpSession(h) =>
                LET id == generateSessionId(req'[h].voiceId)
                IN  IF /\ id \in DOMAIN sessions
                       /\ now - sessions[id].startTime < sessionDuration
                    THEN /\ sessions' = sessions
                         /\ req'[h].profile = sessions[id].profile
                    ELSE /\ id \in DOMAIN sessions'
                         /\ sessions'[id].startTime = now
                         /\ sessions'[id].requestCount = 0
                         /\ req'[h].profile = sessions'[id].profile
        /\ \A id \in DOMAIN sessions \cap DOMAIN sessions' :
             sessions'[id].startTime = sessions[id].startTime
                => sessions'[id].profile = sessions[id].profile ]_vars

\* C17 witness: the second call for a voice looked its session up within
\* sessionDuration and got the profile drawn by the first call
C17_Witness ==
    /\ cm.requestCounter = 2
    /\ now = 1
    /\ \E h \in Handlers :
          LET id == generateSessionId(req[h].voiceId)
          IN  /\ req[h].pc = "humanDelay"
              /\ id \in DOMAIN sessions
              /\ sessions[id].startTime = 0
              /\ sessions[id].requestCount >= 1
              /\ sessions[id].profile = 1
              /\ req[h].profile = 1

----------------------------------------------------------------------------
(* Claims about the stream relay, checked under RelaySpec *)

\* C18 (as claimed): in every reachable state of one relay invocation, under
\* every ordering of data, upstream end, upstream error, sink error, sink
\* close and timeout, at most one of finished, errored, aborted is true.
C18_Claim ==
    /\ ~(stream.finished /\ stream.errored)
    /\ ~(stream.finished /\ stream.aborted)
    /\ ~(stream.errored /\ stream.aborted)

\* C19 (as claimed): the promise returned by robustStreamResponse is
\* eventually resolved or rejected, under every ordering of the events.
C19_Claim ==
    (stream.pc = "pending") ~> (stream.pc \in {"resolved", "rejected"})

\* C20: the promise resolves with true exactly in the step in which the
\* body ends with finished set, neither errored nor aborted being set before
\* or after it; a step that sets errored or aborted before the promise is
\* settled rejects it; and a call that returned false never sets finished.
C20_TrueIffFinished ==
    [][ /\ (stream'.pc = "resolved" /\ stream.pc # "resolved") =>
              /\ stream.body = "flowing" /\ stream'.body = "ended"
              /\ ~stream.finished /\ stream'.finished
              /\ ~stream.errored /\ ~stream.aborted
              /\ ~stream'.errored /\ ~stream'.aborted
        /\ (stream'.finished /\ ~stream.finished) =>
              /\ stream.pc = "pending"
              /\ stream'.pc = "resolved"
        /\ stream'.pc = "resolved" => stream'.finished
        /\ ( /\ stream.pc \in {"notCalled", "pending"}
             /\ \/ stream'.errored /\ ~stream.errored
                \/ stream'.aborted /\ ~stream.aborted )
              => stream'.pc = "rejected"
        /\ stream'.pc = "returnedFalse" =>
              ~stream'.finished /\ ~stream'.listeners ]_vars

\* C20 witness: data flowed, the body ended, the promise resolved with true
\* and the caller went on
C20_Witness ==
    /\ stream.pc = "resolved"
    /\ stream.started
    /\ stream.finished
    /\ stream.body = "ended"
    /\ stream.answered

\* the sink emitted 'error' or 'close' in this step
SinkFails ==
    \/ stream'.resErrored /\ ~stream.resErrored
    \/ stream'.resClosed /\ ~stream.resClosed

\* C21 (as claimed): when the sink errors or closes before the upstream body
\* has ended, the body is destroyed, finished stays false from then on, and
\* one of the outcome flags errored, aborted records the disconnect.
C21_Claim ==
    [][ /\ (SinkFails /\ stream.body = "flowing") =>
              /\ stream'.body = "destroyed"
              /\ ~stream'.finished
              /\ stream'.errored \/ stream'.aborted
        /\ stream.body = "destroyed" => ~stream'.finished ]_vars

\* the timer's callback ran in this step
TimerFires ==
    stream.streamTimeout = "armed" /\ stream'.streamTimeout = "fired"

C23_FailFast ==
    [][ (stream.pc = "notCalled" /\ stream.headersSent
            /\ stream'.pc # "notCalled") =>
           stream' = [stream EXCEPT !.pc = "returnedFalse",
                                    !.startTime = now,
                                    !.answered = TRUE] ]_vars

\* C23 witness: the call returned false on a response already begun
C23_Witness ==
    /\ stream.pc = "returnedFalse"
    /\ stream.headersSent
    /\ stream.answered
    /\ ~stream.headersSet
    /\ ~stream.listeners
    /\ stream.streamTimeout = "null"
    /\ stream.errorSent = 0

\* C24: once started is true, no step writes an error response to the sink,
\* neither the relay's nor the caller's.
C24_NoErrorResponseOnceStarted ==
    [][ (stream.started \/ stream'.started) =>
           stream'.errorSent = stream.errorSent ]_vars

\* C24 witness: the relay failed after data had reached the sink, the caller
\* ran its catch, and no error response was written
C24_Witness ==
    /\ stream.started
    /\ stream.headersSent
    /\ stream.pc = "rejected"
    /\ stream.answered
    /\ stream.errorSent = 0

\* C25 (as claimed): whenever the relay fails after a partial response was
\* transmitted (the promise is rejected while started is true, with errored
\* or aborted set), the sink is destroyed.
C25_Claim ==
    [][ ( /\ stream.started
          /\ stream.pc = "pending"
          /\ stream'.pc = "rejected"
          /\ stream'.errored \/ stream'.aborted )
           => stream'.resDestroyed ]_vars

----------------------------------------------------------------------------
(* Claims about the admission record, checked under Spec *)

\* a request arrived and returned in this step without startRequest: its
\* finally block calls finishRequest for an id that was never recorded
ReturnsUnadmitted ==
    /\ cm'.requestCounter = cm.requestCounter + 1
    /\ cm'.stats.totalRequests = cm.stats.totalRequests
    /\ req' = req

\* C26 (as claimed): finishRequest(key, id) for an id that is not recorded
\* under key leaves the admission record and the statistics as they were,
\* also when other requests of the key are active.
C26_Claim ==
    [][ ReturnsUnadmitted =>
           /\ cm'.activeRequests = cm.activeRequests
           /\ cm'.stats.activeRequests = cm.stats.activeRequests ]_vars

----------------------------------------------------------------------------
(* Claims about the attempts of a logical call, checked under RetrySpec *)

\* the call of slot h starts a retry attempt in this step
RetryStartsIn(h) ==
    /\ req[h].pc = "backoff"
    /\ req'[h].pc # "backoff"

\* C27 (as claimed): every attempt of the retry loop goes through the
\* circuit breaker: a retry attempt adds one to the breaker's request count
\* as the first does, each failed attempt adds one to its failure count, and
\* no attempt is started while the breaker is OPEN.
C27_Claim ==
    [][ \A h \in Handlers :
           /\ RetryStartsIn(h) => ExecuteCalled
           /\ AttemptFailsIn(h) => OperationThrew
           /\ (req[h].pc # "fetch" /\ req'[h].pc = "fetch")
                 => cb.state # "OPEN" ]_vars

----------------------------------------------------------------------------
(* Claims about the routes, checked under RouteSpec *)

\* an attempt resolves its routes in this step
AttemptResolves == route'.attempt = route.attempt + 1

StaticReturned ==
    getDynamicProxyConfig([env EXCEPT !.enableDynamicRegions = FALSE],
                          route.pool, 0)

StaticUsed ==
    getDynamicProxyAgent([env EXCEPT !.enableDynamicRegions = FALSE],
                         route.pool, NoAgent, 0).agent

----------------------------------------------------------------------------
(* Claims about the session counters, checked under RetrySpec *)

\* the fetch of the attempt of slot h settles in this step
FetchSettlesIn(h) ==
    /\ req[h].pc = "fetch"
    /\ req'[h].pc # "fetch"

\* C30 (as claimed): every upstream attempt adds one to the requestCount of
\* the call's session while the session exists, whether the attempt gets a
\* response or fails with a network-class error.
C30_Claim ==
    [][ \A h \in Handlers :
           LET id == generateSessionId(req[h].voiceId)
           IN  ( /\ FetchSettlesIn(h)
                 /\ id \in DOMAIN sessions
                 /\ id \in DOMAIN sessions' )
                  => sessions'[id].requestCount =
                        sessions[id].requestCount + 1 ]_vars

----------------------------------------------------------------------------
(* Claims about a request rejected by admission control, checked under Spec *)

\* canProcessRequest returned false in this step: the handler answers 429 and
\* returns through its finally block
RejectedByAdmission ==
    cm'.stats.rejectedRequests = cm.stats.rejectedRequests + 1

\* the effect of such a step apart from stats.activeRequests: the request is
\* answered 429 in the step, the admission record, the sessions, the breaker
\* and the requests in flight are as before, and of the statistics
\* totalRequests is as before
RejectionFrame ==
    /\ last'.sent = 429
    /\ last'.error = "Too many concurrent requests for this voice"
    /\ last'.attempts = 0
    /\ req' = req
    /\ cm'.activeRequests = cm.activeRequests
    /\ cm'.stats.totalRequests = cm.stats.totalRequests
    /\ sessions' = sessions
    /\ cb' = cb

\* C31 (as claimed): a request rejected by admission control is answered at
\* once and has no other effect: it is not recorded, no session is looked up
\* or created, the breaker is unchanged, no attempt is made, and of the
\* statistics only the rejection counter changes.
C31_Claim ==
    [][ RejectedByAdmission =>
           /\ RejectionFrame
           /\ cm'.stats = [cm.stats EXCEPT !.rejectedRequests = @ + 1] ]_vars

----------------------------------------------------------------------------
(* Claims about the order of the attempts, checked under RetrySpec *)

\* the loop of the call of slot h calls attemptElevenLabsAPICall in this
\* step: the count of its attempts goes up by one, in the slot or, when the
\* attempt fails in the same step and ends the call, in the outcome
AttemptStartsIn(h) ==
    \/ req'[h].attempts = req[h].attempts + 1
    \/ /\ req[h].pc # "idle"
       /\ req'[h].pc = "idle"
       /\ last'.attempts = req[h].attempts + 1

\* C32: within one logical call the attempts are sequential and bounded. An
\* attempt starts only when the human-like delay ends (the first) or when a
\* backoff ends, never while another is in flight or after one succeeded; a
\* backoff begins only in a step in which an attempt failed, every attempt
\* made before it has failed, and its delay is at least one second; and a
\* call never makes more than 3 attempts with rotation and 1 without.
C32_SequentialBounded ==
    [][ \A h \in Handlers :
           /\ AttemptStartsIn(h) =>
                 /\ req[h].pc \in {"humanDelay", "backoff"}
                 /\ req[h].pc = "humanDelay" => req[h].attempts = 0
                 /\ req[h].pc = "backoff" =>
                       /\ req[h].attempts >= 1
                       /\ Len(req[h].errors) = req[h].attempts
                       /\ req[h].lastError = req[h].errors[req[h].attempts]
                       /\ req[h].delay >= 1000
           /\ (req[h].pc # "backoff" /\ req'[h].pc = "backoff")
                 => AttemptFailsIn(h)
           /\ req[h].pc \in {"fetch", "errorBody", "relay"}
                 => req'[h].attempts \in {req[h].attempts, 0}
           /\ req'[h].attempts <= (IF env.enableDynamicRegions THEN 3 ELSE 1)
           /\ last'.attempts <= (IF env.enableDynamicRegions THEN 3 ELSE 1)
      ]_vars

\* C32 witness: with rotation enabled the third attempt of a call is in
\* flight, after two attempts that failed and the backoffs that followed them
C32_Witness ==
    /\ env.enableDynamicRegions = TRUE
    /\ \E h \in Handlers : /\ req[h].pc = "fetch"
                            /\ req[h].attempts = 3
                            /\ req[h].retryCount = 2
                            /\ Len(req[h].errors) = 2

----------------------------------------------------------------------------
(* Claims about the delays of a logical call, checked under RetrySpec *)

\* callElevenLabsAPI is called for slot h in this step and awaits its
\* human-like delay
HumanDelayStartsIn(h) ==
    /\ req[h].pc # "humanDelay"
    /\ req'[h].pc = "humanDelay"

\* C33: the human-like delay is waited once per logical call, before the
\* first attempt, and its value d satisfies 800 <= d <= 2500; the wait
\* before a retry is never that delay but the backoff of the class of the
\* error of the attempt before: 1000 to 3000 ms after an HTTP error,
\* 1000 + 500 * retryCount ms after any other error.
C33_Delays ==
    [][ \A h \in Handlers :
           /\ HumanDelayStartsIn(h) =>
                 /\ req[h].pc \in {"idle", "readBody"}
                 /\ req'[h].attempts = 0
                 /\ req'[h].delay >= 800
                 /\ req'[h].delay <= 2500
           /\ (AttemptStartsIn(h) /\ req[h].attempts = 0) =>
                 /\ req[h].pc = "humanDelay"
                 /\ req[h].delay >= 800
                 /\ req[h].delay <= 2500
           /\ (AttemptStartsIn(h) /\ req[h].attempts > 0) =>
                 /\ req[h].pc = "backoff"
                 /\ IF req[h].lastError \in HttpErrors
                    THEN req[h].delay >= 1000 /\ req[h].delay <= 3000
                    ELSE req[h].delay = 1000 + 500 * req[h].retryCount
           /\ (AttemptFailsIn(h) /\ req'[h].pc = "backoff") =>
                 /\ req'[h].lastError = FailingError(h)
                 /\ IF FailingError(h) \in HttpErrors
                    THEN req'[h].delay >= 1000 /\ req'[h].delay <= 3000
                    ELSE req'[h].delay = 1000 + 500 * req'[h].retryCount
      ]_vars

\* C33 witness: a call waits a human-like delay of 1650 ms before its first
\* attempt, after a call that made two attempts, both answered HTTP 429,
\* with a backoff between them
C33_Witness ==
    /\ env.enableDynamicRegions = TRUE
    /\ last.attempts = 2
    /\ last.error = "HTTP_ERROR_429"
    /\ \E h \in Handlers : /\ req[h].pc = "humanDelay"
                            /\ req[h].attempts = 0
                            /\ req[h].delay = 1650

----------------------------------------------------------------------------
(* Claims about concurrent execute calls, checked under BreakerSpec *)

\* the callers whose operation was invoked in HALF_OPEN and is in flight
ProbesInFlight ==
    { c \in Callers : ops[c].pc = "running" /\ ops[c].entered = "HALF_OPEN" }

\* C34: HALF_OPEN does not limit the probes. An execute call that finds the
\* breaker HALF_OPEN invokes its operation whatever the number of probes
\* in flight, leaving state and successCount as they are; and when a probe
\* completes, its result is applied to the shared state as it is at that
\* moment: a success counts towards closing only if the state is still
\* HALF_OPEN, a failure adds to failures, sets lastFailureTime and opens the
\* breaker unless it is OPEN already.
C34_ConcurrentProbes ==
    [][ /\ (ExecuteCalled /\ cb.state = "HALF_OPEN") =>
              /\ InvokedOperation
              /\ Cardinality(ProbesInFlight') = Cardinality(ProbesInFlight) + 1
              /\ cb'.state = "HALF_OPEN"
              /\ cb'.successCount = cb.successCount
        /\ \A c \in ProbesInFlight :
              /\ ops'[c].result = "returned" =>
                    /\ cb'.stats.totalSuccesses = cb.stats.totalSuccesses + 1
                    /\ cb'.failures = IF cb'.state = cb.state
                                      THEN cb.failures ELSE 0
                    /\ IF cb.state = "HALF_OPEN"
                       THEN /\ cb'.successCount = cb.successCount + 1
                            /\ cb'.state = IF cb'.successCount >= 2
                                           THEN "CLOSED" ELSE "HALF_OPEN"
                       ELSE /\ cb'.successCount = cb.successCount
                            /\ cb'.state = cb.state
              /\ ops'[c].result = "threw" =>
                    /\ cb'.stats.totalFailures = cb.stats.totalFailures + 1
                    /\ cb'.failures = cb.failures + 1
                    /\ cb'.lastFailureTime = now
                    /\ cb'.successCount = cb.successCount
                    /\ cb'.state = IF cb'.failures >= failureThreshold
                                   THEN "OPEN" ELSE cb.state
      ]_vars

\* C34 witness: two probes are in flight together while the breaker is
\* HALF_OPEN and the result of neither is known
C34_Witness ==
    /\ cb.state = "HALF_OPEN"
    /\ cb.successCount = 0
    /\ Cardinality(ProbesInFlight) >= 2

\* the step moves the breaker from OPEN to HALF_OPEN
HalfOpens == cb.state = "OPEN" /\ cb'.state = "HALF_OPEN"

\* C35: the transition from OPEN to HALF_OPEN is made once per OPEN period.
\* It is made by an execute call, in the step of the call, which ends the
\* period: the breaker is HALF_OPEN with successCount 0 and the operation
\* of that call is invoked. HALF_OPEN is entered in no other way, and an
\* execute call that finds the breaker in another state than OPEN changes
\* neither the state nor successCount.
C35_OneTransition ==
    [][ /\ HalfOpens =>
              /\ ExecuteCalled
              /\ InvokedOperation
              /\ Elapsed > resetTimeout
              /\ cb'.successCount = 0
              /\ cb'.failures = cb.failures
              /\ cb'.stats.circuitOpenCount = cb.stats.circuitOpenCount
        /\ (cb.state # "HALF_OPEN" /\ cb'.state = "HALF_OPEN") => HalfOpens
        /\ (ExecuteCalled /\ cb.state # "OPEN") =>
              /\ cb'.state = cb.state
              /\ cb'.successCount = cb.successCount
        /\ (ExecuteCalled /\ cb.state = "OPEN") =>
              \/ HalfOpens
              \/ ThrewBreakerOpen /\ cb'.successCount = cb.successCount
      ]_vars

\* C35 witness: in the first OPEN period one call made the transition, its
\* probe and a second one were in flight together, the first success was
\* counted, and the call that arrived after it found HALF_OPEN and left the
\* count at 1
C35_Witness ==
    /\ cb.state = "HALF_OPEN"
    /\ cb.successCount = 1
    /\ cb.requestCount = failureThreshold + 3
    /\ cb.stats.totalFailures = failureThreshold
    /\ cb.stats.totalSuccesses = 1
    /\ cb.stats.circuitOpenCount = 1
    /\ Cardinality(ProbesInFlight) = 2

----------------------------------------------------------------------------
(* Claims about the sweep of the sessions, checked under Spec *)

\* the sweep runs in this step and deletes a session: of all the steps that
\* change the sessions it is the one that is no step of a request
SweepRuns ==
    /\ sessions' # sessions
    /\ req' = req
    /\ last' = last

\* C36: a run of the sweep deletes every session whose age, now - startTime,
\* has reached sessionDuration, creates none, and leaves every younger
\* session as it is, profile, startTime and requestCount included.
C36_Sweep ==
    [][ SweepRuns =>
           /\ DOMAIN sessions' \subseteq DOMAIN sessions
           /\ \A id \in DOMAIN sessions :
                 IF now - sessions[id].startTime >= sessionDuration
                 THEN id \notin DOMAIN sessions'
                 ELSE /\ id \in DOMAIN sessions'
                      /\ sessions'[id] = sessions[id] ]_vars

\* C36 witness: two requests, for two voices, were relayed without a
\* failure; the session of the first, begun at 0, is gone at time
\* sessionDuration, and the session of the second, begun at 1, is there
\* with its one request counted. No call failed and no session was replaced
\* by a lookup, so the first session was deleted by the sweep.
C36_Witness ==
    /\ now = sessionDuration
    /\ cm.requestCounter = 2
    /\ cm.stats.totalRequests = 2
    /\ cb.stats.totalSuccesses = 2
    /\ cb.stats.totalFailures = 0
    /\ DOMAIN sessions = {generateSessionId("voiceB")}
    /\ sessions[generateSessionId("voiceB")].startTime = 1
    /\ sessions[generateSessionId("voiceB")].requestCount = 1

----------------------------------------------------------------------------
(* Claims about the statistics of admission, checked under Spec *)

\* the number of request ids held in the admission record: the sum of the
\* sizes of the sets of its keys, as getStats() lists them
RecordedCount ==
    Cardinality({ p \in (DOMAIN cm.activeRequests) \X (1..MaxRequests) :
                    p[2] \in cm.activeRequests[p[1]] })

\* C37 (as claimed): in every reachable state stats.activeRequests equals
\* the number of request ids held in the admission record and is never
\* negative, whatever requests were rejected, unauthorized or turned away.
C37_Claim ==
    /\ cm.stats.activeRequests = RecordedCount
    /\ cm.stats.activeRequests >= 0

\* C38: in every reachable state of the admission record no key maps to an
\* empty set, so that finishing the last request in flight of a key removes
\* the entry of the key, and no request id is held under two keys.
C38_RecordShape ==
    /\ \A k \in DOMAIN cm.activeRequests : cm.activeRequests[k] # {}
    /\ \A k1, k2 \in DOMAIN cm.activeRequests :
          k1 # k2 => cm.activeRequests[k1] \cap cm.activeRequests[k2] = {}

\* C38 witness: request 1, for voiceA, was admitted, called upstream (its
\* session is there) and finished, and its key has no entry any more, while
\* request 2 is recorded under voiceB
C38_Witness ==
    /\ cm.requestCounter = 2
    /\ cm.stats.totalRequests = 2
    /\ generateSessionId("voiceA") \in DOMAIN sessions
    /\ DOMAIN cm.activeRequests = {"voiceB"}
    /\ cm.activeRequests["voiceB"] = {2}

----------------------------------------------------------------------------
(* Invariants of the CircuitBreaker, checked under BreakerSpec *)

\* C39: under every interleaving of execute calls, completions and reset()
\* calls, a breaker that is OPEN or HALF_OPEN has failures >= failureThreshold;
\* and so an operation that throws while the breaker is HALF_OPEN, whenever
\* it was started, opens it.
C39_ThresholdWhileNotClosed ==
    [][ /\ cb'.state \in {"OPEN", "HALF_OPEN"}
              => cb'.failures >= failureThreshold
        /\ (OperationThrew /\ cb.state = "HALF_OPEN") => cb'.state = "OPEN"
      ]_vars

\* C39 witness: an operation started while the breaker was CLOSED failed
\* after it had opened, the breaker went HALF_OPEN with more failures than
\* the threshold, and the failure of the probe opened it again
C39_Witness ==
    /\ cb.state = "OPEN"
    /\ cb.failures = failureThreshold + 2
    /\ cb.stats.circuitOpenCount = 2
    /\ \E c \in Callers : /\ ops[c].entered = "HALF_OPEN"
                        /\ ops[c].result = "threw"

\* the step moves the breaker into OPEN
Opens == cb.state # "OPEN" /\ cb'.state = "OPEN"

\* C40: stats.circuitOpenCount counts the transitions into OPEN: it grows by
\* one in the steps that move the breaker into OPEN and in no other. An
\* operation that throws while the breaker is OPEN already (it was started
\* before the breaker opened) adds one to failures and sets lastFailureTime
\* to the current time, from which the reset timeout then runs, and leaves
\* the state and the counter as they are.
C40_OpenCount ==
    [][ /\ Opens =>
              cb'.stats.circuitOpenCount = cb.stats.circuitOpenCount + 1
        /\ ~Opens =>
              cb'.stats.circuitOpenCount = cb.stats.circuitOpenCount
        /\ (OperationThrew /\ cb.state = "OPEN") =>
              /\ cb'.failures = cb.failures + 1
              /\ cb'.lastFailureTime = now
              /\ cb'.state = "OPEN"
              /\ cb'.successCount = cb.successCount
      ]_vars

\* C40 witness: the breaker opened at time 0 on its second failure, and an
\* operation started before that threw at time 1: the breaker is in its
\* first OPEN period with three failures, the timeout running from 1
C40_Witness ==
    /\ cb.state = "OPEN"
    /\ cb.stats.circuitOpenCount = 1
    /\ cb.failures = failureThreshold + 1
    /\ cb.stats.totalFailures = failureThreshold + 1
    /\ cb.lastFailureTime = 1
    /\ now = 1
    /\ \E c \in Callers : ops[c].entered = "CLOSED" /\ ops[c].result = "threw"

====
